---- MODULE Spec2Model ----
(***************************************************************************)
(* Model of manga-rs: the two download pipelines (viewer/giga/pipeline.rs, *)
(* viewer/fuz/pipeline.rs), the output writers (io/raw.rs, io/zip.rs,      *)
(* io/pdf.rs) and the tile-permutation solver (viewer/giga/solver.rs).     *)
(***************************************************************************)
EXTENDS Integers, Sequences, FiniteSets, TLC

\* ------------------------------------------------------------------------
\* Bounds of the model
\* ------------------------------------------------------------------------
MaxPages == 3          \* longest episode (image and non-image pages together)
MaxConnections == 2    \* largest num_connections tried
MaxThreads == 2        \* largest num_threads tried
RayonThreads == 2      \* workers of rayon's global pool (one per CPU of the host)
MaxExtra == 2          \* solver: pixels beyond a whole number of cells, per axis
MaxPattern == 5        \* solver: number of pixel patterns tried, minus one
MaxSolves == 2         \* solver: applications of solve_buffer to one buffer
MaxBlocks == 2         \* cipher: whole blocks in the longest buffer
MaxKeys == 1           \* cipher: number of well-formed keys (and ivs) tried, minus one
MaxDim == 4096         \* solver: largest width or height the cell size is computed for

\* ------------------------------------------------------------------------
\* State
\* ------------------------------------------------------------------------
VARIABLES
    variant,          \* "giga" | "fuz": which Pipeline runs download
    save_format,      \* WriterConifg::save_format: "Raw" | "Zip" | "Pdf"
    num_connections,  \* Pipeline::num_connections
    num_threads,      \* Pipeline::num_threads
    stage,            \* position of download in the job's stage sequence
    pages,            \* the image pages handed to the fetch stage
    next,             \* pages already pulled from stream::iter(pages)
    inflight,         \* fetch futures / tasks started and not completed
    ready,            \* completed fetch tasks whose JoinHandle is not yet yielded (fuz)
    fetched,          \* fuz: results collected from buffer_unordered, completion order
    solveq,           \* giga: solve futures inside try_buffer_unordered
                      \* fuz: (bytes, page) pairs of the zipped parallel iterator
    solving,          \* giga: the solve the polling task is running
                      \* fuz: pairs a rayon worker is solving
    images,           \* (tag, image) pairs collected so far, completion order
    handed,           \* the collection handed to the writer
    writeCalls,       \* number of invocations of write_images / write_image_bytes
    wpc,              \* position inside the writer: "idle" | "tasks" | "save" | "returned"
    wtask,            \* per position of handed: state of its writer task
    zipOpen,          \* Zip: the entry the ZipWriter is writing to (last start_file)
    encoded,          \* Pdf: the positions whose encode has ended, in that order
    pdf,              \* Pdf: the pages of the document, in page-tree order
    doc,              \* Pdf: catalog and page tree (ids, count, kids) of the document
    disk,             \* what exists at the destination
    result,           \* what download returned: "none" | "Ok" | "Err" | "Panic"
    err,              \* the error download returned
    errLog,           \* every failure, in the order the job met them
    trail,            \* the stages the job has been in, in order
    buf,              \* solver: the pixel buffer
    bufW,             \* solver: buffer width
    bufH,             \* solver: buffer height
    orig,             \* solver: the buffer before the first solve_buffer
    solveCount,       \* solver: number of solve_buffer applications
    episode,          \* the kinds of all pages of the episode, in response order
    url,              \* the URL given on the command line: [host, path]
    website,          \* what Website::lookup(host) gave the pipeline
    episode_id,       \* the id parse_episode_id took from the URL path
    sortLog,          \* the stages in which par_sort_by_key ran, in order
    key_hex,          \* cipher: Solver::key_hex, a sequence of characters
    iv_hex,           \* cipher: Solver::iv_hex, a sequence of characters
    cipherIn,         \* cipher: the buffer given to decrypt_aes_cbc
    plain,            \* cipher: the plaintext cipherIn was made from
    encrypted,        \* cipher: cipherIn is the CBC encryption of plain
    cipherOut         \* cipher: what decrypt_aes_cbc returned

cfg == <<variant, save_format, num_connections, num_threads>>
fvars == <<next, inflight, ready, fetched, solveq, solving>>
wvars == <<handed, writeCalls, wpc, wtask, zipOpen, encoded, pdf, doc, disk>>
pvars == <<cfg, sortLog, episode_id, website, url, episode, stage, pages, fvars, images, wvars,
          result, err, errLog, trail>>
svars == <<buf, bufW, bufH, orig, solveCount>>
cvars == <<key_hex, iv_hex, cipherIn, plain, encrypted, cipherOut>>
vars == <<pvars, svars, cvars>>

\* ------------------------------------------------------------------------
\* Episodes and pages
\* ------------------------------------------------------------------------
Kinds == {"image", "other"}
Episodes == UNION {[1..n -> Kinds] : n \in 0..MaxPages}

\* mutant of visit_seq: the index counts the pages that are no images too
RECURSIVE visit_seq_counts_all(_, _, _)
visit_seq_counts_all(seq, index, acc) ==
    IF seq = <<>> THEN acc
    ELSE IF Head(seq) = "image"
         THEN visit_seq_counts_all(Tail(seq), index + 1,
                                   Append(acc, [kind |-> "image", index |-> index]))
         ELSE visit_seq_counts_all(Tail(seq), index + 1, acc)

\* giga/data.rs visit_seq: keeps the image pages only and numbers them 0,1,2..
RECURSIVE visit_seq(_, _, _)
visit_seq(seq, index, acc) ==
    IF seq = <<>> THEN acc
    ELSE IF Head(seq) = "image"
         THEN visit_seq(Tail(seq), index + 1,
                        Append(acc, [kind |-> "image", index |-> index]))
         ELSE visit_seq(Tail(seq), index, acc)

\* fuz/data.rs From<WebMangaViewerResponse>: enumerate() over all pages
EpisodeFrom(seq) == [i \in 1..Len(seq) |-> [kind |-> seq[i], index |-> i - 1]]

is_image(page) == page.kind = "image"

\* fuz download: .filter(|page| page.is_image())
RECURSIVE FilterImages(_)
FilterImages(seq) ==
    IF seq = <<>> THEN <<>>
    ELSE IF is_image(Head(seq)) THEN <<Head(seq)>> \o FilterImages(Tail(seq))
         ELSE FilterImages(Tail(seq))

\* ------------------------------------------------------------------------
\* Image data.  src is the index of the page the bytes were fetched for,
\* key the index of the page whose key/iv decrypted them (-1: none).
\* ------------------------------------------------------------------------
NoKey == 0 - 1
RawBytes(page) == [src |-> page.index, key |-> NoKey, solved |-> FALSE]
\* giga solve_image: Solver::new().solve_from_bytes(image), page unused
GigaSolved(bytes) == [src |-> bytes.src, key |-> NoKey, solved |-> TRUE]
\* fuz: Solver::new(image.encryption_key(), image.encryption_iv()).solve(bytes)
FuzSolved(bytes, page) == [src |-> bytes.src, key |-> page.index, solved |-> TRUE]

\* ------------------------------------------------------------------------
\* par_sort_by_key: a stable sort by the tag (insertion sort, ties keep order)
\* ------------------------------------------------------------------------
RECURSIVE InsertByKey(_, _)
InsertByKey(sorted, e) ==
    IF sorted = <<>> THEN <<e>>
    ELSE IF e.tag < Head(sorted).tag THEN <<e>> \o sorted
         ELSE <<Head(sorted)>> \o InsertByKey(Tail(sorted), e)

\* mutant of par_sort_by_key: the sort is left out
par_sort_by_key_missing(seq) == seq

RECURSIVE par_sort_by_key(_)
par_sort_by_key(seq) ==
    IF seq = <<>> THEN <<>>
    ELSE InsertByKey(par_sort_by_key(SubSeq(seq, 1, Len(seq) - 1)), seq[Len(seq)])

\* .into_iter().map(|(_, image)| image).collect()
StripTags(seq) == [i \in 1..Len(seq) |-> seq[i].data]

\* ------------------------------------------------------------------------
\* Stages
\* ------------------------------------------------------------------------
Stages == {"Locating", "FetchingEpisode", "FetchingPages", "Solving",
           "Sorting", "Writing", "Done", "Failed"}
Terminal == {"Done", "Failed"}

\* the context the code attaches to an error before returning it: only
\* parse_episode_id has a .context(..); every other error goes up through a
\* bare `?`
ParseContext == "Failed to parse episode id"
NoContext == "none"
Context(s) == IF s = "Locating" THEN ParseContext ELSE NoContext

\* an error value (anyhow::Error) or a panic.  stage and tag record where
\* the failure happened (the stage, and the page tag or -1); context is what
\* the value itself carries besides its cause.
ErrorAt(s, t) == [stage |-> s, tag |-> t, panic |-> FALSE, context |-> Context(s)]
PanicAt(s, t) == [stage |-> s, tag |-> t, panic |-> TRUE, context |-> NoContext]

\* what the caller of download can read from the error it gets: the context
\* and the cause; no stage and no page index are put into it (-1, "none")
Reported(e) == [context |-> e.context, stage |-> "none", index |-> NoKey]
NoErr == ErrorAt("none", NoKey)
EmptyDisk == [exists |-> FALSE, entries |-> {}]
NoDoc == [catalog_id |-> 0, page_tree_id |-> 0, count |-> 0, kids |-> <<>>]

\* download returns Err(e) through `?`, or unwinds with the panic e
Fail(e) ==
    /\ stage' = "Failed"
    /\ result' = IF e.panic THEN "Panic" ELSE "Err"
    /\ err' = e
    /\ trail' = Append(trail, "Failed")

Goto(s) ==
    /\ stage' = s
    /\ trail' = Append(trail, s)

\* ------------------------------------------------------------------------
\* The locator: main.rs lines 94-122, viewer/giga/viewer.rs, viewer/fuz/viewer.rs
\* A host is a string; a path is the sequence of its characters.
\* ------------------------------------------------------------------------
NoHost == "no host"
NoUrl == [host |-> NoHost, path |-> <<>>]

\* giga/viewer.rs HOST_TO_WEBSITE, lines 34-49
GIGA_HOST_TO_WEBSITE ==
    {<<"shonenjumpplus.com", "ShonenJumpPlus">>, <<"tonarinoyj.jp", "TonarinoYJ">>,
     <<"viewer.heros-web.com", "HerosWeb">>, <<"comicbushi-web.com", "ComicBushi">>,
     <<"comicborder.com", "ComicBorder">>, <<"comic-days.com", "ComicDays">>,
     <<"comic-action.com", "ComicAction">>, <<"comic-ogyaaa.com", "ComicOgyaaa">>,
     <<"comic-gardo.com", "ComicGardo">>, <<"comic-zenon.com", "ComicZenon">>,
     <<"feelweb.jp", "Feelweb">>, <<"kuragebunch.com", "Kuragebunch">>,
     <<"www.sunday-webry.com", "SundayWebry">>, <<"magcomi.com", "Magcomi">>}
\* fuz/viewer.rs HOST_TO_WEBSITE, lines 22-24
FUZ_HOST_TO_WEBSITE == {<<"comic-fuz.com", "ComicFuz">>}

\* mutant of WEBSITE_HOST: SundayWebry is given its host without the www label
WEBSITE_HOST_bare_sunday ==
    {<<"ShonenJumpPlus", "shonenjumpplus.com">>, <<"TonarinoYJ", "tonarinoyj.jp">>,
     <<"HerosWeb", "viewer.heros-web.com">>, <<"ComicBushi", "comicbushi-web.com">>,
     <<"ComicBorder", "comicborder.com">>, <<"ComicDays", "comic-days.com">>,
     <<"ComicAction", "comic-action.com">>, <<"ComicOgyaaa", "comic-ogyaaa.com">>,
     <<"ComicGardo", "comic-gardo.com">>, <<"ComicZenon", "comic-zenon.com">>,
     <<"Feelweb", "feelweb.jp">>, <<"Kuragebunch", "kuragebunch.com">>,
     <<"SundayWebry", "sunday-webry.com">>, <<"Magcomi", "magcomi.com">>,
     <<"ComicFuz", "comic-fuz.com">>}

\* Website::host of the two families, giga/viewer.rs lines 56-74 and
\* fuz/viewer.rs lines 31-35: the match arms of the preset sites
WEBSITE_HOST ==
    {<<"ShonenJumpPlus", "shonenjumpplus.com">>, <<"TonarinoYJ", "tonarinoyj.jp">>,
     <<"HerosWeb", "viewer.heros-web.com">>, <<"ComicBushi", "comicbushi-web.com">>,
     <<"ComicBorder", "comicborder.com">>, <<"ComicDays", "comic-days.com">>,
     <<"ComicAction", "comic-action.com">>, <<"ComicOgyaaa", "comic-ogyaaa.com">>,
     <<"ComicGardo", "comic-gardo.com">>, <<"ComicZenon", "comic-zenon.com">>,
     <<"Feelweb", "feelweb.jp">>, <<"Kuragebunch", "kuragebunch.com">>,
     <<"SundayWebry", "www.sunday-webry.com">>, <<"Magcomi", "magcomi.com">>,
     <<"ComicFuz", "comic-fuz.com">>}
\* the enum variants other than Custom
GigaPresets ==
    {"ShonenJumpPlus", "TonarinoYJ", "HerosWeb", "ComicBushi", "ComicBorder", "ComicDays",
     "ComicAction", "ComicOgyaaa", "ComicGardo", "ComicZenon", "Feelweb", "Kuragebunch",
     "SundayWebry", "Magcomi"}
FuzPresets == {"ComicFuz"}
WebsiteHost(w) == (CHOOSE e \in WEBSITE_HOST : e[1] = w)[2]

\* HOST_TO_WEBSITE.get(host): the Website or None
Get(map, host) ==
    IF \E e \in map : e[1] = host
    THEN (CHOOSE e \in map : e[1] = host)[2]
    ELSE "None"

\* mutant of GigaLookup: a host that is not in the map becomes Website::Custom
GigaLookup_custom(host) ==
    IF Get(GIGA_HOST_TO_WEBSITE, host) = "None" THEN "Custom"
    ELSE Get(GIGA_HOST_TO_WEBSITE, host)

\* giga Website::lookup, fuz Website::lookup
GigaLookup(host) == Get(GIGA_HOST_TO_WEBSITE, host)
FuzLookup(host) == Get(FUZ_HOST_TO_WEBSITE, host)

\* the regular expressions r"/episode/(\d+)(?:\.json)?$" and
\* r"/manga/viewer/(\d+)$": a literal, a run of digits that is captured, an
\* optional ".json" (giga only), the end of the path
Digit == {"0", "1", "2", "3", "4", "5", "6", "7", "8", "9"}
EpisodeLit == <<"/", "e", "p", "i", "s", "o", "d", "e", "/">>
ViewerLit == <<"/", "m", "a", "n", "g", "a", "/", "v", "i", "e", "w", "e", "r", "/">>
JsonLit == <<".", "j", "s", "o", "n">>
GIGA_EPISODE_PATH_PATTERN == [literal |-> EpisodeLit, json |-> TRUE]
FUZ_EPISODE_PATH_PATTERN == [literal |-> ViewerLit, json |-> FALSE]
EPISODE_PATH_PATTERN(v) ==
    IF v = "giga" THEN GIGA_EPISODE_PATH_PATTERN ELSE FUZ_EPISODE_PATH_PATTERN

StartsWith(s, i, lit) ==
    /\ i + Len(lit) - 1 <= Len(s)
    /\ SubSeq(s, i, i + Len(lit) - 1) = lit

\* \d+ is greedy: the position of the last digit of the run that starts at i
\* (i - 1 when s[i] is no digit)
RECURSIVE DigitRunEnd(_, _)
DigitRunEnd(s, i) ==
    IF i <= Len(s) /\ s[i] \in Digit THEN DigitRunEnd(s, i + 1) ELSE i - 1

\* mutant of MatchAt: the pattern is not anchored at the end of the path
MatchAt_unanchored(s, i, pattern) ==
    /\ StartsWith(s, i, pattern.literal)
    /\ DigitRunEnd(s, i + Len(pattern.literal)) >= i + Len(pattern.literal)

\* the pattern matches the path from position i on
MatchAt(s, i, pattern) ==
    /\ StartsWith(s, i, pattern.literal)
    /\ LET b == i + Len(pattern.literal)
           e == DigitRunEnd(s, b)
       IN  /\ e >= b
           /\ \/ e = Len(s)
              \/ pattern.json /\ SubSeq(s, e + 1, Len(s)) = JsonLit

\* Regex::captures(path) and captures.get(1): the leftmost match
captures(pattern, path) ==
    LET starts == {i \in 1..Len(path) : MatchAt(path, i, pattern)}
    IN  IF starts = {} THEN [matched |-> FALSE, id |-> <<>>]
        ELSE LET i == CHOOSE i \in starts : \A k \in starts : i <= k
                 b == i + Len(pattern.literal)
             IN  [matched |-> TRUE, id |-> SubSeq(path, b, DigitRunEnd(path, b))]

\* Client::parse_episode_id of the pipeline's client
parse_episode_id(v, u) == captures(EPISODE_PATH_PATTERN(v), u.path)

\* the pipeline main builds for a host: giga is looked up first, then fuz
VariantOf(host) ==
    IF GigaLookup(host) # "None" THEN "giga"
    ELSE IF FuzLookup(host) # "None" THEN "fuz"
    ELSE "none"
\* main with the two `if let Some(website)` blocks in the other order
VariantOf_fuz_first(host) ==
    IF FuzLookup(host) # "None" THEN "fuz"
    ELSE IF GigaLookup(host) # "None" THEN "giga"
    ELSE "none"
WebsiteOf_fuz_first(host) ==
    IF FuzLookup(host) # "None" THEN FuzLookup(host) ELSE GigaLookup(host)
WebsiteOf(host) ==
    IF GigaLookup(host) # "None" THEN GigaLookup(host) ELSE FuzLookup(host)

\* the URLs tried.  A path is a prefix, a literal, some characters where the
\* id should be, and a suffix.
Long == <<"9", "3", "2", "4", "1", "0", "3", "6", "2", "5", "6", "7", "6", "4",
          "1", "0", "7", "0", "0">>
Prefixes == {<<>>, <<"/", "x">>, EpisodeLit \o <<"1">>}
Literals == {EpisodeLit, ViewerLit, <<"/", "e", "p", "i", "s", "o", "d", "e">>}
Ids == {<<>>, <<"7">>, <<"4", "4", "9", "9", "4">>, Long, <<"4", "a">>}
Suffixes == {<<>>, JsonLit, <<".", "j", "s", "o">>, <<"/">>, JsonLit \o <<"x">>}
Paths == {p \o l \o d \o x : p \in Prefixes, l \in Literals, d \in Ids, x \in Suffixes}
Hosts == {e[1] : e \in GIGA_HOST_TO_WEBSITE \cup FUZ_HOST_TO_WEBSITE}
         \cup {"example.com", "www.comic-fuz.com", NoHost}
Urls == [host : Hosts, path : Paths]
\* the URLs the whole job is run with
JobUrls == [host : {"shonenjumpplus.com", "comic-fuz.com", "example.com", "www.comic-fuz.com"},
            path : {EpisodeLit \o <<"7">>, ViewerLit \o <<"7">>}]

\* ------------------------------------------------------------------------
\* Init
\* ------------------------------------------------------------------------
SolverIdle ==
    /\ buf = <<>>
    /\ bufW = 0
    /\ bufH = 0
    /\ orig = <<>>
    /\ solveCount = 0

\* what the cipher solver returns: Ok(bytes), Err(FromHexError) or a panic
CipherResult(k, b) == [kind |-> k, bytes |-> b]
NotRun == CipherResult("none", <<>>)

CipherIdle ==
    /\ key_hex = <<>>
    /\ iv_hex = <<>>
    /\ cipherIn = <<>>
    /\ plain = <<>>
    /\ encrypted = FALSE
    /\ cipherOut = NotRun

JobStart ==
    /\ stage = "Locating"
    /\ sortLog = <<>>
    /\ episode_id = <<>>
    /\ website = "None"
    /\ episode = <<>>
    /\ pages = <<>>
    /\ next = 0
    /\ inflight = {}
    /\ ready = {}
    /\ fetched = <<>>
    /\ solveq = {}
    /\ solving = {}
    /\ images = <<>>
    /\ handed = <<>>
    /\ writeCalls = 0
    /\ wpc = "idle"
    /\ wtask = <<>>
    /\ zipOpen = NoKey
    /\ encoded = <<>>
    /\ pdf = <<>>
    /\ doc = NoDoc
    /\ disk = EmptyDisk
    /\ result = "none"
    /\ err = NoErr
    /\ errLog = <<>>
    /\ trail = <<"Locating">>

Init ==
    /\ variant = "none"
    /\ url \in JobUrls
    /\ save_format \in {"Raw", "Zip", "Pdf"}
    /\ num_connections \in 1..MaxConnections
    /\ num_threads \in 1..MaxThreads
    /\ JobStart
    /\ SolverIdle
    /\ CipherIdle

\* ------------------------------------------------------------------------
\* download, lines 206-207 (giga) / 301-302 (fuz)
\* ------------------------------------------------------------------------
\* main.rs lines 94-122: url.host_str().context(..)?, the two lookups, the
\* pipeline built with set_website, or bail!("Website not supported: {}")
HostContext == "Url must have host"
UnsupportedContext == "Website not supported"
MainErr(c) == [stage |-> "Locating", tag |-> NoKey, panic |-> FALSE, context |-> c]
Lookup ==
    /\ stage = "Locating"
    /\ variant = "none"
    /\ IF url.host = NoHost
       THEN /\ Fail(MainErr(HostContext))
            /\ errLog' = Append(errLog, MainErr(HostContext))
            /\ UNCHANGED <<variant, website>>
       ELSE IF VariantOf(url.host) = "none"
       THEN /\ Fail(MainErr(UnsupportedContext))
            /\ errLog' = Append(errLog, MainErr(UnsupportedContext))
            /\ UNCHANGED <<variant, website>>
       ELSE /\ variant' = VariantOf(url.host)
            /\ website' = WebsiteOf(url.host)
            /\ UNCHANGED <<stage, result, err, errLog, trail>>
    /\ UNCHANGED <<save_format, num_connections, num_threads, sortLog, episode_id, url, episode,
                   pages, fvars, images, wvars, svars, cvars>>

\* mutant of ParseEpisodeId: a path that does not match gives an empty id
\* (unwrap_or_default) and the job goes on
ParseEpisodeId_unchecked ==
    /\ stage = "Locating"
    /\ variant # "none"
    /\ episode_id' = parse_episode_id(variant, url).id
    /\ Goto("FetchingEpisode")
    /\ UNCHANGED <<cfg, sortLog, website, url, episode, pages, fvars, images, wvars, result, err,
                   errLog, svars, cvars>>

\* parse_episode_id(url)?  -- "Failed to parse episode id" when no match
ParseEpisodeId ==
    /\ stage = "Locating"
    /\ variant # "none"
    /\ IF parse_episode_id(variant, url).matched
       THEN /\ episode_id' = parse_episode_id(variant, url).id
            /\ Goto("FetchingEpisode")
            /\ UNCHANGED <<result, err, errLog>>
       ELSE /\ Fail(ErrorAt("Locating", NoKey))
            /\ errLog' = Append(errLog, ErrorAt("Locating", NoKey))
            /\ UNCHANGED episode_id
    /\ UNCHANGED <<cfg, sortLog, website, url, episode, pages, fvars, images, wvars, svars, cvars>>

\* fetch_episode(&episode_id).await?  then  episode.pages() [+ filter in fuz]
FetchEpisode ==
    /\ stage = "FetchingEpisode"
    /\ \/ /\ Fail(ErrorAt("FetchingEpisode", NoKey))
          /\ errLog' = Append(errLog, ErrorAt("FetchingEpisode", NoKey))
          /\ UNCHANGED <<episode, pages>>
       \/ \E e \in Episodes :
            /\ episode' = e
            /\ pages' = IF variant = "giga" THEN visit_seq(e, 0, <<>>)
                        ELSE FilterImages(EpisodeFrom(e))
            /\ Goto("FetchingPages")
            /\ UNCHANGED <<result, err, errLog>>
    /\ UNCHANGED <<cfg, sortLog, episode_id, website, url, fvars, images, wvars, svars, cvars>>

\* ------------------------------------------------------------------------
\* giga download, lines 210-220: the pipelined stream
\*   stream::iter(pages).enumerate().map(fetch).buffer_unordered(num_connections)
\*     .map_ok(solve).try_buffer_unordered(num_threads).try_collect()
\* try_buffer_unordered polls the fetch stream only while its own queue has
\* room; a fetch future completes when polled and is yielded in that poll.
\* The whole stream is polled by the one task that awaits try_collect;
\* solve_image has no await point, so while a solve runs that task polls
\* nothing else.
\* ------------------------------------------------------------------------
\* mutant of GigaStartFetch: the fetch stage takes pages without a limit
GigaStartFetch_unbounded ==
    /\ variant = "giga"
    /\ stage = "FetchingPages"
    /\ next < Len(pages)
    /\ solving = {}
    /\ Cardinality(solveq) < num_threads
    /\ inflight' = inflight \cup {[tag |-> next, page |-> pages[next + 1]]}
    /\ next' = next + 1
    /\ UNCHANGED <<cfg, sortLog, episode_id, website, url, episode, stage, pages, ready, fetched, solveq, solving, images,
                   wvars, result, err, errLog, trail, svars, cvars>>

GigaStartFetch ==
    /\ variant = "giga"
    /\ stage = "FetchingPages"
    /\ next < Len(pages)
    /\ solving = {}
    /\ Cardinality(inflight) < num_connections
    /\ Cardinality(solveq) < num_threads
    /\ inflight' = inflight \cup {[tag |-> next, page |-> pages[next + 1]]}
    /\ next' = next + 1
    /\ UNCHANGED <<cfg, sortLog, episode_id, website, url, episode, stage, pages, ready, fetched, solveq, solving, images,
                   wvars, result, err, errLog, trail, svars, cvars>>

\* mutant of GigaFetchDone: the image is tagged with the order of its arrival
GigaFetchDone_retagged ==
    /\ variant = "giga"
    /\ stage = "FetchingPages"
    /\ solving = {}
    /\ Cardinality(solveq) < num_threads
    /\ \E u \in inflight, ok \in BOOLEAN :
         IF ok
         THEN /\ inflight' = inflight \ {u}
              /\ solveq' = solveq \cup {[tag |-> Len(images) + Cardinality(solveq), bytes |-> RawBytes(u.page)]}
              /\ UNCHANGED <<stage, result, err, errLog, trail>>
         ELSE /\ Fail(ErrorAt("FetchingPages", u.tag))
              /\ errLog' = Append(errLog, ErrorAt("FetchingPages", u.tag))
              /\ inflight' = {}
              /\ solveq' = {}
    /\ UNCHANGED <<cfg, sortLog, episode_id, website, url, episode, pages, next, ready, fetched, solving, images, wvars, svars, cvars>>

\* fetch_image(&page).await? completes; Ok goes on to map_ok, Err ends the stream
GigaFetchDone ==
    /\ variant = "giga"
    /\ stage = "FetchingPages"
    /\ solving = {}
    /\ Cardinality(solveq) < num_threads
    /\ \E u \in inflight, ok \in BOOLEAN :
         IF ok
         THEN /\ inflight' = inflight \ {u}
              /\ solveq' = solveq \cup {[tag |-> u.tag, bytes |-> RawBytes(u.page)]}
              /\ UNCHANGED <<stage, result, err, errLog, trail>>
         ELSE /\ Fail(ErrorAt("FetchingPages", u.tag))
              /\ errLog' = Append(errLog, ErrorAt("FetchingPages", u.tag))
              /\ inflight' = {}
              /\ solveq' = {}
    /\ UNCHANGED <<cfg, sortLog, episode_id, website, url, episode, pages, next, ready, fetched, solving, images, wvars, svars, cvars>>

\* mutant of GigaSolveStart: a solve is polled only when no fetch is in flight
GigaSolveStart_after_fetches ==
    /\ variant = "giga"
    /\ stage \in {"FetchingPages", "Solving"}
    /\ solving = {}
    /\ inflight = {}
    /\ \E s \in solveq :
         /\ solveq' = solveq \ {s}
         /\ solving' = {s}
    /\ UNCHANGED <<cfg, sortLog, episode_id, website, url, episode, stage, pages, next, inflight, ready, fetched, images,
                   wvars, result, err, errLog, trail, svars, cvars>>

\* a solve future of try_buffer_unordered is polled: solve_image begins to
\* run on the polling task
GigaSolveStart ==
    /\ variant = "giga"
    /\ stage \in {"FetchingPages", "Solving"}
    /\ solving = {}
    /\ \E s \in solveq :
         /\ solveq' = solveq \ {s}
         /\ solving' = {s}
    /\ UNCHANGED <<cfg, sortLog, episode_id, website, url, episode, stage, pages, next, inflight, ready, fetched, images,
                   wvars, result, err, errLog, trail, svars, cvars>>

\* solve_image(image, None).await? returns inside the poll that began it;
\* on Err the stream, and every future in it, is dropped
GigaSolve ==
    /\ variant = "giga"
    /\ stage \in {"FetchingPages", "Solving"}
    /\ \E s \in solving, ok \in BOOLEAN :
         IF ok
         THEN /\ solving' = solving \ {s}
              /\ images' = Append(images, [tag |-> s.tag, data |-> GigaSolved(s.bytes), pos |-> 0])
              /\ UNCHANGED <<stage, result, err, errLog, trail, inflight, solveq>>
         ELSE /\ Fail(ErrorAt("Solving", s.tag))
              /\ errLog' = Append(errLog, ErrorAt("Solving", s.tag))
              /\ inflight' = {}
              /\ solveq' = {}
              /\ solving' = {}
              /\ UNCHANGED images
    /\ UNCHANGED <<cfg, sortLog, episode_id, website, url, episode, pages, next, ready, fetched, wvars, svars, cvars>>

\* mutant of GigaStreamEnd: the stream ends when the last page has been taken,
\* and the fetches still in flight are dropped
GigaStreamEnd_early ==
    /\ variant = "giga"
    /\ stage = "FetchingPages"
    /\ next = Len(pages)
    /\ solving = {}
    /\ Cardinality(solveq) < num_threads
    /\ inflight' = {}
    /\ Goto("Solving")
    /\ UNCHANGED <<cfg, sortLog, episode_id, website, url, episode, pages, next, ready, fetched,
                   solveq, solving, images, wvars, result, err, errLog, svars, cvars>>

\* the fetch stream returns None: every page was fetched, solves are drained
GigaStreamEnd ==
    /\ variant = "giga"
    /\ stage = "FetchingPages"
    /\ next = Len(pages)
    /\ inflight = {}
    /\ solving = {}
    /\ Cardinality(solveq) < num_threads
    /\ Goto("Solving")
    /\ UNCHANGED <<cfg, sortLog, episode_id, website, url, episode, pages, fvars, images, wvars, result, err, errLog, svars, cvars>>

\* mutant of GigaTryCollect: the Vec is returned while solves are queued
GigaTryCollect_early ==
    /\ variant = "giga"
    /\ stage = "Solving"
    /\ Goto("Sorting")
    /\ UNCHANGED <<cfg, sortLog, episode_id, website, url, episode, pages, fvars, images, wvars, result, err, errLog, svars, cvars>>

\* mutant of GigaTryCollect: the solve stage sorts what it collected
GigaTryCollect_sorted ==
    /\ variant = "giga"
    /\ stage = "Solving"
    /\ solveq = {}
    /\ solving = {}
    /\ sortLog' = Append(sortLog, stage)
    /\ Goto("Sorting")
    /\ UNCHANGED <<cfg, episode_id, website, url, episode, pages, fvars, images, wvars, result, err, errLog, svars, cvars>>

\* try_collect::<Vec<_>>().await? returns the Vec
GigaTryCollect ==
    /\ variant = "giga"
    /\ stage = "Solving"
    /\ solveq = {}
    /\ solving = {}
    /\ Goto("Sorting")
    /\ UNCHANGED <<cfg, sortLog, episode_id, website, url, episode, pages, fvars, images, wvars, result, err, errLog, svars, cvars>>

\* ------------------------------------------------------------------------
\* fuz fetch_images, lines 129-160
\* ------------------------------------------------------------------------
\* buffer_unordered(num_connections) pulls the next page: tokio::spawn
FuzStartFetch ==
    /\ variant = "fuz"
    /\ stage = "FetchingPages"
    /\ next < Len(pages)
    /\ Cardinality(inflight) + Cardinality(ready) < num_connections
    /\ inflight' = inflight \cup {[tag |-> pages[next + 1].index, page |-> pages[next + 1]]}
    /\ next' = next + 1
    /\ UNCHANGED <<cfg, sortLog, episode_id, website, url, episode, stage, pages, ready, fetched, solveq, solving, images,
                   wvars, result, err, errLog, trail, svars, cvars>>

\* the spawned task ends with Ok((bytes, page.index())) or Err
FuzFetchComplete ==
    /\ variant = "fuz"
    /\ stage = "FetchingPages"
    /\ \E u \in inflight, ok \in BOOLEAN :
         /\ inflight' = inflight \ {u}
         /\ ready' = ready \cup {[tag |-> u.tag, ok |-> ok, data |-> RawBytes(u.page)]}
    /\ UNCHANGED <<cfg, sortLog, episode_id, website, url, episode, stage, pages, next, fetched, solveq, solving, images,
                   wvars, result, err, errLog, trail, svars, cvars>>

\* mutant of FuzFetchYield: a failed fetch is logged and left out of the Vec
FuzFetchYield_skips_errors ==
    /\ variant = "fuz"
    /\ stage = "FetchingPages"
    /\ \E r \in ready :
         /\ ready' = ready \ {r}
         /\ fetched' = IF r.ok THEN Append(fetched, r) ELSE fetched
         /\ errLog' = IF r.ok THEN errLog
                       ELSE Append(errLog, ErrorAt("FetchingPages", r.tag))
    /\ UNCHANGED <<cfg, sortLog, episode_id, website, url, episode, stage, pages, next, inflight, solveq, solving, images,
                   wvars, result, err, trail, svars, cvars>>

\* the JoinHandle is yielded, .map(|pair| pair?), pushed by collect::<Vec<_>>()
FuzFetchYield ==
    /\ variant = "fuz"
    /\ stage = "FetchingPages"
    /\ \E r \in ready :
         /\ ready' = ready \ {r}
         /\ fetched' = Append(fetched, r)
         /\ errLog' = IF r.ok THEN errLog
                       ELSE Append(errLog, ErrorAt("FetchingPages", r.tag))
    /\ UNCHANGED <<cfg, sortLog, episode_id, website, url, episode, stage, pages, next, inflight, solveq, solving, images,
                   wvars, result, err, trail, svars, cvars>>

\* mutant of FirstErr: failed fetches are dropped instead of returned
FirstErr_dropped(seq) == NoErr

\* first Err of a Vec<Result<..>>, as .into_iter().collect::<Result<Vec<_>>>()
RECURSIVE FirstErr(_)
FirstErr(seq) ==
    IF seq = <<>> THEN NoErr
    ELSE IF ~Head(seq).ok THEN ErrorAt("FetchingPages", Head(seq).tag)
         ELSE FirstErr(Tail(seq))

\* mutant of ZipEq: the byte list is paired with the pages in reverse
ZipEq_reversed(bytesList, pgs) ==
    {[pos |-> k, bytes |-> bytesList[k], page |-> pgs[Len(pgs) + 1 - k]] :
        k \in 1..Len(bytesList)}

\* .collect::<Result<Vec<_>>>()? past the `?`: the Ok values, in order
OkValues(seq) == SelectSeq(seq, LAMBDA r : r.ok)

\* rayon zip_eq panics when the two sides differ in length
ZipEqAborts(bytesList, pgs) == Len(bytesList) # Len(pgs)

\* zip_eq(pages): pairs position k of the byte list with position k of pages
ZipEq(bytesList, pgs) ==
    {[pos |-> k, bytes |-> bytesList[k], page |-> pgs[k]] : k \in 1..Len(bytesList)}

\* mutant of FuzFetchCollect: the first Err is returned as soon as it is
\* yielded (try_collect), the JoinHandles of the other tasks are dropped
FuzFetchCollect_fail_fast ==
    /\ variant = "fuz"
    /\ stage = "FetchingPages"
    /\ \/ next = Len(pages) /\ inflight = {} /\ ready = {}
       \/ FirstErr(fetched) # NoErr
    /\ IF FirstErr(fetched) # NoErr
       THEN /\ Fail(FirstErr(fetched))
            /\ UNCHANGED <<solveq, sortLog, errLog>>
       ELSE /\ sortLog' = Append(sortLog, stage)
            /\ IF ZipEqAborts(OkValues(fetched), pages)
               THEN /\ Fail(PanicAt("Solving", NoKey))
                    /\ errLog' = Append(errLog, PanicAt("Solving", NoKey))
                    /\ UNCHANGED solveq
               ELSE /\ solveq' = ZipEq(StripTags(par_sort_by_key(OkValues(fetched))), pages)
                    /\ Goto("Solving")
                    /\ UNCHANGED <<result, err, errLog>>
    /\ UNCHANGED <<cfg, episode_id, website, url, episode, pages, next, inflight, ready, fetched, solving, images,
                   wvars, svars, cvars>>

\* the stream ended: collect::<Result<Vec<_>>>()?, par_sort_by_key, strip;
\* then download line 309 enters solve_image_bytes(images, Some(pages))
FuzFetchCollect ==
    /\ variant = "fuz"
    /\ stage = "FetchingPages"
    /\ next = Len(pages)
    /\ inflight = {}
    /\ ready = {}
    /\ IF FirstErr(fetched) # NoErr
       THEN /\ Fail(FirstErr(fetched))
            /\ UNCHANGED <<solveq, sortLog, errLog>>
       ELSE /\ sortLog' = Append(sortLog, stage)
            /\ IF ZipEqAborts(OkValues(fetched), pages)
               THEN /\ Fail(PanicAt("Solving", NoKey))
                    /\ errLog' = Append(errLog, PanicAt("Solving", NoKey))
                    /\ UNCHANGED solveq
               ELSE /\ solveq' = ZipEq(StripTags(par_sort_by_key(OkValues(fetched))), pages)
                    /\ Goto("Solving")
                    /\ UNCHANGED <<result, err, errLog>>
    /\ UNCHANGED <<cfg, episode_id, website, url, episode, pages, next, inflight, ready, fetched, solving, images,
                   wvars, svars, cvars>>

\* ------------------------------------------------------------------------
\* fuz solve_image_bytes, lines 162-198: rayon par_iter over the zipped pairs
\* ------------------------------------------------------------------------
\* a rayon worker takes a pair; .filter(|(_, page)| page.is_image())
FuzSolveStart ==
    /\ variant = "fuz"
    /\ stage = "Solving"
    /\ Cardinality(solving) < RayonThreads
    /\ \E s \in solveq :
         /\ solveq' = solveq \ {s}
         /\ solving' = IF is_image(s.page) THEN solving \cup {s} ELSE solving
    /\ UNCHANGED <<cfg, sortLog, episode_id, website, url, episode, stage, pages, next, inflight, ready, fetched, images,
                   wvars, result, err, errLog, trail, svars, cvars>>

\* fuz/crypto.rs decrypt_aes_cbc, as solver.solve(bytes) sees it:
\*   "ok"    the decrypted bytes
\*   "err"   hex::decode(key_hex)? / decode(iv_hex)? returned Err
\*   "panic" GenericArray::from_slice on a key or iv of the wrong length, or
\*           clone_from_slice on a last chunk shorter than a block
DecryptOutcomes == {"ok", "err", "panic"}

\* solver.solve(bytes)? ; Ok((image, page.index()?)).  collect::<Result<..>>
\* keeps the first error that is produced; a panic of a worker is kept by
\* rayon and resumed in the caller.
FuzSolveFinish ==
    /\ variant = "fuz"
    /\ stage = "Solving"
    /\ \E s \in solving, outcome \in DecryptOutcomes :
         /\ solving' = solving \ {s}
         /\ IF outcome = "ok"
            THEN /\ images' = Append(images, [tag |-> s.page.index,
                                              data |-> FuzSolved(s.bytes, s.page),
                                              pos |-> s.pos])
                 /\ UNCHANGED <<err, errLog>>
            ELSE IF outcome = "err"
            THEN /\ err' = IF err = NoErr THEN ErrorAt("Solving", s.page.index)
                           ELSE err
                 /\ errLog' = Append(errLog, ErrorAt("Solving", s.page.index))
                 /\ UNCHANGED images
            ELSE /\ errLog' = Append(errLog, PanicAt("Solving", s.page.index))
                 /\ UNCHANGED <<err, images>>
    /\ UNCHANGED <<cfg, sortLog, episode_id, website, url, episode, stage, pages, next, inflight, ready, fetched, solveq,
                   wvars, result, trail, svars, cvars>>

\* rayon's collect into a Vec keeps the order of the parallel iterator
RECURSIVE InsertByPos(_, _)
InsertByPos(sorted, e) ==
    IF sorted = <<>> THEN <<e>>
    ELSE IF e.pos < Head(sorted).pos THEN <<e>> \o sorted
         ELSE <<Head(sorted)>> \o InsertByPos(Tail(sorted), e)

RECURSIVE CollectInOrder(_)
CollectInOrder(seq) ==
    IF seq = <<>> THEN <<>>
    ELSE InsertByPos(CollectInOrder(SubSeq(seq, 1, Len(seq) - 1)), seq[Len(seq)])

\* the first panic among the failures met
RECURSIVE FirstPanic(_)
FirstPanic(log) ==
    IF log = <<>> THEN NoErr
    ELSE IF Head(log).panic THEN Head(log)
         ELSE FirstPanic(Tail(log))

\* mutant of FuzSolveCollect: the pages whose solve failed are left out
\* (filter_map(Result::ok)) and the rest is handed on
FuzSolveCollect_skip_failed ==
    /\ variant = "fuz"
    /\ stage = "Solving"
    /\ solving = {}
    /\ solveq = {}
    /\ images' = CollectInOrder(images)
    /\ Goto("Sorting")
    /\ UNCHANGED <<cfg, sortLog, episode_id, website, url, episode, pages, fvars, wvars, result, err, errLog, svars, cvars>>

\* .collect::<Result<Vec<_>>>()? : every started worker has ended; after an
\* error or a panic the pairs not yet started are skipped; a panic unwinds
\* through download, otherwise the kept error is returned
FuzSolveCollect ==
    /\ variant = "fuz"
    /\ stage = "Solving"
    /\ solving = {}
    /\ solveq = {} \/ err # NoErr \/ FirstPanic(errLog) # NoErr
    /\ IF FirstPanic(errLog) # NoErr
       THEN /\ Fail(FirstPanic(errLog))
            /\ UNCHANGED images
       ELSE IF err # NoErr
       THEN /\ Fail(err)
            /\ UNCHANGED images
       ELSE /\ images' = CollectInOrder(images)
            /\ Goto("Sorting")
            /\ UNCHANGED <<result, err>>
    /\ UNCHANGED <<cfg, sortLog, episode_id, website, url, episode, pages, fvars, wvars, errLog, svars, cvars>>

\* ------------------------------------------------------------------------
\* giga download lines 221-225 / fuz solve_image_bytes lines 191-195
\* ------------------------------------------------------------------------
Sort ==
    /\ stage = "Sorting"
    /\ handed' = StripTags(par_sort_by_key(images))
    /\ sortLog' = Append(sortLog, stage)
    /\ Goto("Writing")
    /\ UNCHANGED <<cfg, episode_id, website, url, episode, pages, fvars, images, writeCalls,
                   wpc, wtask, zipOpen, encoded, pdf, doc, disk, result, err, errLog, svars, cvars>>

\* ------------------------------------------------------------------------
\* The writers: RawWriter / ZipWriter / PdfWriter, write and write_images
\* ------------------------------------------------------------------------
WriteErr(k) == ErrorAt("Writing", k)

\* write_images(images, path) is entered.
\*   Raw: tokio::fs::create_dir_all(path).await?
\*   Zip: std::fs::File::create(path)?
\*   Pdf: new_pdf(), then the parallel encode
WriterOpen ==
    /\ stage = "Writing"
    /\ wpc = "idle"
    /\ writeCalls' = writeCalls + 1
    /\ \E ok \in BOOLEAN :
         IF ok
         THEN /\ wpc' = IF save_format = "Pdf" THEN "encode" ELSE "tasks"
              /\ disk' = IF save_format = "Pdf" THEN disk
                         ELSE [exists |-> TRUE, entries |-> {}]
              /\ wtask' = [k \in 1..Len(handed) |-> "new"]
              /\ UNCHANGED <<stage, result, err, errLog, trail>>
         ELSE /\ save_format # "Pdf"
              /\ Fail(WriteErr(NoKey))
              /\ errLog' = Append(errLog, WriteErr(NoKey))
              /\ wpc' = "returned"
              /\ UNCHANGED <<disk, wtask>>
    /\ UNCHANGED <<cfg, sortLog, episode_id, website, url, episode, pages, fvars, images, handed,
                   zipOpen, encoded, pdf, doc, svars, cvars>>

Unstarted == {k \in 1..Len(wtask) : wtask[k] = "new"}
Spawned == {k \in 1..Len(wtask) : wtask[k] = "running"}
Locked == {k \in 1..Len(wtask) : wtask[k] = "locked"}
Running == Spawned \cup Locked

\* .enumerate().map(spawn).buffer_unordered(num_threads): the next task starts
WriteTaskStart ==
    /\ stage = "Writing"
    /\ wpc = "tasks"
    /\ Cardinality(Running) < num_threads
    /\ \E k \in Unstarted :
         /\ \A j \in Unstarted : k <= j
         /\ wtask' = [wtask EXCEPT ![k] = "running"]
    /\ UNCHANGED <<cfg, sortLog, episode_id, website, url, episode, stage, pages, fvars, images, handed,
                   writeCalls, wpc, zipOpen, encoded, pdf, doc, disk, result, err, errLog, trail,
                   svars, cvars>>

\* mutant of WriteTaskLock: the archive is shared without the Mutex
WriteTaskLock_unguarded ==
    /\ stage = "Writing"
    /\ wpc = "tasks"
    /\ save_format = "Zip"
    /\ \E k \in Spawned :
         /\ wtask' = [wtask EXCEPT ![k] = "locked"]
         /\ zipOpen' = k - 1
    /\ UNCHANGED <<cfg, sortLog, episode_id, website, url, episode, stage, pages, fvars, images, handed,
                   writeCalls, wpc, encoded, pdf, doc, disk, result, err, errLog, trail, svars, cvars>>

\* Zip: let mut zip = zip.lock().await; zip.start_file(format!("{}.{}", i, ext))?
\* The task gets the tokio Mutex when no other task holds it, and starts its
\* entry under the guard.  (write_images: `let (i, bytes) = pair?` returns the
\* encode error before the lock is asked for.)
WriteTaskLock ==
    /\ stage = "Writing"
    /\ wpc = "tasks"
    /\ save_format = "Zip"
    /\ \E k \in Spawned, ok \in BOOLEAN :
         IF ok
         THEN /\ Locked = {}
              /\ wtask' = [wtask EXCEPT ![k] = "locked"]
              /\ zipOpen' = k - 1
              /\ UNCHANGED errLog
         ELSE /\ wtask' = [wtask EXCEPT ![k] = "no_entry"]
              /\ errLog' = Append(errLog, WriteErr(k - 1))
              /\ UNCHANGED zipOpen
    /\ UNCHANGED <<cfg, sortLog, episode_id, website, url, episode, stage, pages, fvars, images, handed,
                   writeCalls, wpc, encoded, pdf, doc, disk, result, err, trail, svars, cvars>>

\* what one writer task leaves behind, by its outcome:
\*   "ok"       the file / entry holds the whole image
\*   "no_entry" encode_image, File::open or start_file returned Err
\*   "partial"  write_all returned Err after the file / entry was created
\*   "unflushed" (Raw) write_all into the tokio BufWriter returned Ok and the
\*              BufWriter was dropped without flush: the bytes still in its
\*              buffer (the tail of the image, all of a small one) are lost
\* The Raw file is named by the task's own i; the bytes of a Zip task go to
\* the entry the ZipWriter has open.
Outcomes(format) ==
    IF format = "Raw" THEN {"ok", "no_entry", "partial", "unflushed"}
    ELSE {"ok", "partial"}
TaskOk(outcome) == outcome \in {"ok", "unflushed"}
TaskEntries(k, outcome) ==
    IF outcome = "no_entry" THEN {}
    ELSE {[name |-> IF save_format = "Zip" THEN zipOpen ELSE k - 1,
           data |-> handed[k],
           complete |-> outcome = "ok"]}

\* a writer task ends (Zip: write_all under the guard, then the guard is
\* dropped); its Result goes into the Vec that write discards
WriteTaskFinish ==
    /\ stage = "Writing"
    /\ wpc = "tasks"
    /\ \E k \in IF save_format = "Zip" THEN Locked ELSE Spawned,
          outcome \in Outcomes(save_format) :
         /\ wtask' = [wtask EXCEPT ![k] = outcome]
         /\ disk' = [disk EXCEPT !.entries = @ \cup TaskEntries(k, outcome)]
         /\ errLog' = IF TaskOk(outcome) THEN errLog
                       ELSE Append(errLog, WriteErr(k - 1))
    /\ UNCHANGED <<cfg, sortLog, episode_id, website, url, episode, stage, pages, fvars, images, handed,
                   writeCalls, wpc, zipOpen, encoded, pdf, doc, result, err, trail, svars, cvars>>

\* .collect::<Vec<_>>().await; Ok(())   then download: Ok(())
WriterReturn ==
    /\ stage = "Writing"
    /\ wpc = "tasks"
    /\ Unstarted = {}
    /\ Running = {}
    /\ wpc' = "returned"
    /\ result' = "Ok"
    /\ Goto("Done")
    /\ UNCHANGED <<cfg, sortLog, episode_id, website, url, episode, pages, fvars, images, handed,
                   writeCalls, wtask, zipOpen, encoded, pdf, doc, disk, err, errLog, svars, cvars>>

\* PdfWriter: images.into_par_iter().map(encode).map(|pair| pair.unwrap())
\* a rayon worker takes the encode of one more image
PdfEncodeStart ==
    /\ stage = "Writing"
    /\ wpc = "encode"
    /\ Cardinality(Running) < RayonThreads
    /\ \E k \in Unstarted : wtask' = [wtask EXCEPT ![k] = "running"]
    /\ UNCHANGED <<cfg, sortLog, episode_id, website, url, episode, stage, pages, fvars, images, handed,
                   writeCalls, wpc, zipOpen, encoded, pdf, doc, disk, result, err, errLog, trail,
                   svars, cvars>>

Panicked == {k \in 1..Len(wtask) : wtask[k] = "panicked"}

\* the encode of one image ends: Ok((bytes, width, height)), or Err and the
\* unwrap panics on the rayon worker
PdfEncodeFinish ==
    /\ stage = "Writing"
    /\ wpc = "encode"
    /\ \E k \in Spawned, ok \in BOOLEAN :
         IF ok
         THEN /\ wtask' = [wtask EXCEPT ![k] = "encoded"]
              /\ encoded' = Append(encoded, k)
              /\ UNCHANGED errLog
         ELSE /\ wtask' = [wtask EXCEPT ![k] = "panicked"]
              /\ errLog' = Append(errLog, PanicAt("Writing", k - 1))
              /\ UNCHANGED encoded
    /\ UNCHANGED <<cfg, sortLog, episode_id, website, url, episode, stage, pages, fvars, images, handed,
                   writeCalls, wpc, zipOpen, pdf, doc, disk, result, err, trail, svars, cvars>>

\* image.dimensions(): every image has its own width and height
dimensions(image) == <<image.src + 1, 2 * image.src + 3>>

\* add_image_page(bytes, width, height, ..): the image XObject and a page
\* whose media box is Rect::new(0.0, 0.0, width, height)
\* Ref::new(1)
RefStart == 1

\* mutant of bump: the reference is returned and not increased
bump_not_increased(ref_id) == [id |-> ref_id, ref_id |-> ref_id]

\* Ref::bump: returns the reference and increases it by one
bump(ref_id) == [id |-> ref_id, ref_id |-> ref_id + 1]

\* PdfWriter::new_pdf: catalog id, page tree id, and the next free reference
new_pdf ==
    LET catalog == bump(RefStart)
        page_tree == bump(catalog.ref_id)
    IN  [catalog_id |-> catalog.id, page_tree_id |-> page_tree.id, ref_id |-> page_tree.ref_id]

add_image_page(image, ref_id) ==
    LET image_ref == bump(ref_id)
        page_ref == bump(image_ref.ref_id)
        content_ref == bump(page_ref.ref_id)
    IN  [image |-> image,
         media_box |-> <<0, 0, dimensions(image)[1], dimensions(image)[2]>>,
         image_id |-> image_ref.id,
         page_id |-> page_ref.id,
         content_id |-> content_ref.id,
         ref_id |-> content_ref.ref_id]

\* encoded.into_iter().map(add_image_page): the pages, ref_id going from one
\* call to the next
RECURSIVE AddPages(_, _, _)
AddPages(imgs, ref_id, acc) ==
    IF imgs = <<>> THEN acc
    ELSE LET page == add_image_page(Head(imgs), ref_id)
         IN  AddPages(Tail(imgs), page.ref_id, Append(acc, page))

\* pdf.pages(page_tree_id).count(page_ids.len() as i32).kids(page_ids)
PageTree(page_ids) ==
    [catalog_id |-> new_pdf.catalog_id,
     page_tree_id |-> new_pdf.page_tree_id,
     count |-> Len(page_ids),
     kids |-> page_ids]

\* mutant of Collected: the Vec holds the results in the order the encodes ended
Collected_as_completed == encoded

\* .collect::<Vec<_>>() of the parallel iterator: the positions of the input,
\* in input order
Collected == [k \in 1..Len(handed) |-> k]

\* the parallel encode is over (rayon resumes a worker's panic in the caller
\* once no worker is left at work); then encoded.into_iter().map(add_image_page)
\* and pdf.pages(..).kids(page_ids)
PdfBuild ==
    /\ stage = "Writing"
    /\ wpc = "encode"
    /\ Running = {}
    /\ IF Panicked # {}
       THEN /\ \E k \in Panicked : Fail(PanicAt("Writing", k - 1))
            /\ wpc' = "returned"
            /\ UNCHANGED <<pdf, doc>>
       ELSE /\ Unstarted = {}
            /\ pdf' = AddPages([i \in 1..Len(Collected) |-> handed[Collected[i]]],
                               new_pdf.ref_id, <<>>)
            /\ doc' = PageTree([k \in 1..Len(pdf') |-> pdf'[k].page_id])
            /\ wpc' = "save"
            /\ UNCHANGED <<stage, result, err, trail>>
    /\ UNCHANGED <<cfg, sortLog, episode_id, website, url, episode, pages, fvars, images, handed,
                   writeCalls, wtask, zipOpen, encoded, disk, errLog, svars, cvars>>

\* what the file holds once pdf.finish() is written: page i-1 with its image
PdfEntries == {[name |-> i - 1, data |-> pdf[i].image, complete |-> TRUE] : i \in 1..Len(pdf)}

\* PdfWriter lines 176-184: File::options()..open(path).await? ;
\* file.write_all(pdf.finish()).await?
PdfSave ==
    /\ stage = "Writing"
    /\ wpc = "save"
    /\ wpc' = "returned"
    /\ \E outcome \in {"ok", "no_entry", "partial"} :
         /\ disk' = IF outcome = "no_entry" THEN disk
                    ELSE [exists |-> TRUE,
                          entries |-> IF outcome = "ok" THEN PdfEntries ELSE {}]
         /\ IF outcome = "ok"
            THEN /\ result' = "Ok"
                 /\ Goto("Done")
                 /\ UNCHANGED <<err, errLog>>
            ELSE /\ Fail(WriteErr(NoKey))
                 /\ errLog' = Append(errLog, WriteErr(NoKey))
    /\ UNCHANGED <<cfg, sortLog, episode_id, website, url, episode, pages, fvars, images, handed,
                   writeCalls, wtask, zipOpen, encoded, pdf, doc, svars, cvars>>

\* ------------------------------------------------------------------------
\* The download job
\* ------------------------------------------------------------------------
Next ==
    \/ Lookup
    \/ ParseEpisodeId
    \/ FetchEpisode
    \/ GigaStartFetch
    \/ GigaFetchDone
    \/ GigaSolveStart
    \/ GigaSolve
    \/ GigaStreamEnd
    \/ GigaTryCollect
    \/ FuzStartFetch
    \/ FuzFetchComplete
    \/ FuzFetchYield
    \/ FuzFetchCollect
    \/ FuzSolveStart
    \/ FuzSolveFinish
    \/ FuzSolveCollect
    \/ Sort
    \/ WriterOpen
    \/ WriteTaskStart
    \/ WriteTaskLock
    \/ WriteTaskFinish
    \/ WriterReturn
    \/ PdfEncodeStart
    \/ PdfEncodeFinish
    \/ PdfBuild
    \/ PdfSave

Spec == Init /\ [][Next]_vars

TypeOK ==
    /\ stage \in Stages
    /\ result \in {"none", "Ok", "Err", "Panic"}
    /\ next \in 0..Len(pages)
    /\ writeCalls \in 0..1

\* ------------------------------------------------------------------------
\* The permutation solver, viewer/giga/solver.rs
\* A buffer is the row-major sequence of its pixels (ImageBuffer over a Vec);
\* a pixel is its three u8 channels taken as one number.
\* ------------------------------------------------------------------------
NUM_CELLS == 4
DIVISIBLE_WITH == 8
PixelMod == 256 * 256 * 256

\* the result of a panic (an out-of-bounds get_pixel / put_pixel)
Panic == <<0 - 1>>

InBounds(w, h, x, y) == x < w /\ y < h
PixelAt(w, x, y) == y * w + x + 1
get_pixel(img, w, x, y) == img[PixelAt(w, x, y)]
put_pixel(img, w, x, y, p) == [img EXCEPT ![PixelAt(w, x, y)] = p]

\* mutant of SwapPixel: the source pixel is not written to the target
SwapPixel_no_write_back(img, w, h, sx, sy, tx, ty) ==
    IF img = Panic \/ ~InBounds(w, h, sx, sy) \/ ~InBounds(w, h, tx, ty)
    THEN Panic
    ELSE put_pixel(img, w, sx, sy, get_pixel(img, w, tx, ty))

\* swap_regions lines 52-56: one iteration of the inner loop
SwapPixel(img, w, h, sx, sy, tx, ty) ==
    IF img = Panic \/ ~InBounds(w, h, sx, sy) \/ ~InBounds(w, h, tx, ty)
    THEN Panic
    ELSE LET source_pixel == get_pixel(img, w, sx, sy)
             target_pixel == get_pixel(img, w, tx, ty)
         IN  put_pixel(put_pixel(img, w, sx, sy, target_pixel), w, tx, ty, source_pixel)

\* swap_regions line 51: for y in 0..height, for one x
RECURSIVE SwapColumn(_, _, _, _, _, _, _, _)
SwapColumn(img, w, h, source_tl, target_tl, x, height, y) ==
    IF img = Panic THEN Panic
    ELSE IF y = height THEN img
    ELSE SwapColumn(SwapPixel(img, w, h, source_tl[1] + x, source_tl[2] + y,
                              target_tl[1] + x, target_tl[2] + y),
                    w, h, source_tl, target_tl, x, height, y + 1)

\* swap_regions line 50: for x in 0..width
RECURSIVE swap_regions(_, _, _, _, _, _, _, _)
swap_regions(img, w, h, source_tl, target_tl, width, height, x) ==
    IF img = Panic THEN Panic
    ELSE IF x = width THEN img
    ELSE swap_regions(SwapColumn(img, w, h, source_tl, target_tl, x, height, 0),
                      w, h, source_tl, target_tl, width, height, x + 1)

\* mutant of CellSize: the cell size is rounded up to a multiple of DIVISIBLE_WITH
CellSize_rounded_up(dimension) ==
    ((dimension + NUM_CELLS * DIVISIBLE_WITH - 1) \div (NUM_CELLS * DIVISIBLE_WITH))
    * DIVISIBLE_WITH

\* solve_buffer lines 67-68
CellSize(dimension) == (dimension \div (NUM_CELLS * DIVISIBLE_WITH)) * DIVISIBLE_WITH

\* mutant of Skip: only the diagonal is skipped
Skip_diagonal_only(i, j) == j = i

\* solve_buffer lines 74-77: `if j <= i { continue; }`
Skip(i, j) == j <= i

\* mutant of Source: the source cell is taken one row further down
Source_next_row(i, j, cell_width, cell_height) == <<i * cell_width, (j + 1) * cell_height>>

\* solve_buffer line 79
Source(i, j, cell_width, cell_height) == <<i * cell_width, j * cell_height>>

\* mutant of Target: the target cell is taken on the diagonal
Target_on_diagonal(i, j, cell_width, cell_height) == <<j * cell_width, j * cell_height>>

\* solve_buffer line 80
Target(i, j, cell_width, cell_height) == <<j * cell_width, i * cell_height>>

\* the (i, j) the two nested loops pass to swap_regions, in loop order
LoopPairs ==
    SelectSeq([k \in 1..(NUM_CELLS * NUM_CELLS) |->
                   <<(k - 1) \div NUM_CELLS, (k - 1) % NUM_CELLS>>],
              LAMBDA p : ~Skip(p[1], p[2]))

RECURSIVE SolveLoop(_, _, _, _)
SolveLoop(img, w, h, pairs) ==
    IF img = Panic THEN Panic
    ELSE IF pairs = <<>> THEN img
    ELSE LET i == Head(pairs)[1]
             j == Head(pairs)[2]
             cw == CellSize(w)
             ch == CellSize(h)
         IN  SolveLoop(swap_regions(img, w, h, Source(i, j, cw, ch),
                                    Target(i, j, cw, ch), cw, ch, 0),
                       w, h, Tail(pairs))

solve_buffer(img, w, h) == SolveLoop(img, w, h, LoopPairs)

\* the smallest dimension that holds NUM_CELLS cells of DIVISIBLE_WITH pixels
FullCell == NUM_CELLS * DIVISIBLE_WITH

\* the buffers tried: every pixel of a buffer has its own value, so that any
\* move of a pixel shows
FullDims == ((FullCell..(FullCell + MaxExtra)) \X (FullCell..(FullCell + MaxExtra)))
            \cup {<<2 * FullCell, FullCell>>, <<FullCell + MaxExtra, 2 * FullCell>>}
\* buffers too small for one full cell on the x axis, the y axis or both
SmallDims == {<<1, 1>>, <<DIVISIBLE_WITH, DIVISIBLE_WITH>>,
              <<FullCell - 1, FullCell - 1>>,
              <<FullCell - 1, FullCell + MaxExtra>>,
              <<FullCell + MaxExtra, FullCell - 1>>,
              <<DIVISIBLE_WITH, 2 * FullCell>>, <<2 * FullCell, DIVISIBLE_WITH>>}
Dims == FullDims \cup SmallDims
Pattern(w, h, p) ==
    [n \in 1..(w * h) |-> ((n - 1) * (2 * p + 1) + p) % PixelMod]

InitSolver ==
    /\ variant = "giga"
    /\ url = NoUrl
    /\ save_format = "Raw"
    /\ num_connections = 1
    /\ num_threads = 1
    /\ JobStart
    /\ \E d \in Dims, p \in 0..MaxPattern :
         /\ bufW = d[1]
         /\ bufH = d[2]
         /\ buf = Pattern(d[1], d[2], p)
         /\ orig = Pattern(d[1], d[2], p)
    /\ solveCount = 0
    /\ CipherIdle

\* solve_image line 91: let solved_buffer = self.solve_buffer(buffer)?
SolveBuffer ==
    /\ solveCount < MaxSolves
    /\ buf # Panic
    /\ buf' = solve_buffer(buf, bufW, bufH)
    /\ solveCount' = solveCount + 1
    /\ UNCHANGED <<bufW, bufH, orig, pvars, cvars>>

NextSolver == SolveBuffer

SpecSolver == InitSolver /\ [][NextSolver]_vars

\* ------------------------------------------------------------------------
\* The cipher solver, viewer/fuz/crypto.rs and viewer/fuz/solver.rs
\* A buffer is a sequence of u8; a hex string is the sequence of the values
\* of its characters, HexBad standing for a character that is no hex digit.
\* ------------------------------------------------------------------------
ByteMod == 256
BlockSize == 16
KeySize == 32
HexBad == 16

\* hex::decode: Err on an odd length or on a character that is no hex digit
decode(hex) ==
    IF Len(hex) % 2 = 1 \/ (\E i \in 1..Len(hex) : hex[i] >= HexBad)
    THEN CipherResult("FromHexError", <<>>)
    ELSE CipherResult("Ok", [i \in 1..(Len(hex) \div 2) |->
                                 16 * hex[2 * i - 1] + hex[2 * i]])

\* u8 ^ u8
RECURSIVE Xor(_, _)
Xor(a, b) ==
    IF a = 0 THEN b
    ELSE IF b = 0 THEN a
    ELSE ((a + b) % 2) + 2 * Xor(a \div 2, b \div 2)

XorBlock(a, b) == [i \in 1..BlockSize |-> Xor(a[i], b[i])]

\* Aes256Dec: the block cipher of the aes crate, taken as a keyed permutation
\* of the blocks (a rotation of the block and a byte-wise subtraction of key
\* material); EncryptBlock is the permutation it inverts.
RoundKey(key, i) == (key[i] + key[i + BlockSize]) % ByteMod
EncryptBlock(key, b) ==
    [i \in 1..BlockSize |-> (b[(i % BlockSize) + 1] + RoundKey(key, i)) % ByteMod]
DecryptBlock(key, c) ==
    [j \in 1..BlockSize |->
        LET i == IF j = 1 THEN BlockSize ELSE j - 1
        IN  (c[i] + ByteMod - RoundKey(key, i)) % ByteMod]

\* mutant of decrypt_block_mut: the block is not XORed with the chaining value
decrypt_block_mut_no_xor(key, iv, block) == DecryptBlock(key, block)

\* cbc::Decryptor::decrypt_block_mut (line 27): the plaintext block
decrypt_block_mut(key, iv, block) == XorBlock(DecryptBlock(key, block), iv)

\* mutant of DecryptBlocks: the chaining value stays the iv for every block
RECURSIVE DecryptBlocks_iv_kept(_, _, _)
DecryptBlocks_iv_kept(key, iv, chunks) ==
    IF chunks = <<>> THEN <<>>
    ELSE <<decrypt_block_mut(key, iv, Head(chunks))>>
         \o DecryptBlocks_iv_kept(key, iv, Tail(chunks))

\* lines 26-28: buffer.iter_mut().for_each(decrypt_block_mut); the Decryptor
\* keeps the ciphertext block it was given as the next chaining value
RECURSIVE DecryptBlocks(_, _, _)
DecryptBlocks(key, iv, chunks) ==
    IF chunks = <<>> THEN <<>>
    ELSE <<decrypt_block_mut(key, iv, Head(chunks))>>
         \o DecryptBlocks(key, Head(chunks), Tail(chunks))

\* line 22: .chunks(Aes256Dec::block_size()), the last chunk may be shorter
Chunks(buffer) ==
    [k \in 1..((Len(buffer) + BlockSize - 1) \div BlockSize) |->
        SubSeq(buffer, (k - 1) * BlockSize + 1,
               IF k * BlockSize < Len(buffer) THEN k * BlockSize ELSE Len(buffer))]

\* line 30: buffer.concat()
RECURSIVE Concat(_)
Concat(blocks) ==
    IF blocks = <<>> THEN <<>>
    ELSE Head(blocks) \o Concat(Tail(blocks))

\* decrypt_aes_cbc, lines 11-31.  GenericArray::from_slice panics on a slice
\* of another length than the array, GenericArray::clone_from_slice likewise.
decrypt_aes_cbc(buffer, keyHex, ivHex) ==
    LET key_bytes == decode(keyHex)
        iv_bytes == decode(ivHex)
    IN  IF key_bytes.kind # "Ok" THEN key_bytes
        ELSE IF iv_bytes.kind # "Ok" THEN iv_bytes
        ELSE IF Len(key_bytes.bytes) # KeySize THEN CipherResult("Panic", <<>>)
        ELSE IF Len(iv_bytes.bytes) # BlockSize THEN CipherResult("Panic", <<>>)
        ELSE IF \E k \in 1..Len(Chunks(buffer)) : Len(Chunks(buffer)[k]) # BlockSize
             THEN CipherResult("Panic", <<>>)
        ELSE CipherResult("Ok", Concat(DecryptBlocks(key_bytes.bytes, iv_bytes.bytes,
                                                     Chunks(buffer))))

\* CBC encryption, what the site applies to a page: block k of the ciphertext
\* is E_key(p_k XOR c_(k-1)), with c_0 = iv
RECURSIVE EncryptBlocks(_, _, _)
EncryptBlocks(key, iv, blocks) ==
    IF blocks = <<>> THEN <<>>
    ELSE LET c == EncryptBlock(key, XorBlock(Head(blocks), iv))
         IN  <<c>> \o EncryptBlocks(key, c, Tail(blocks))
CbcEncrypt(p, key, iv) == Concat(EncryptBlocks(key, iv, Chunks(p)))

\* the inputs tried
BufferPattern(len, p) == [n \in 1..len |-> ((n - 1) * (2 * p + 1) + 37 * p) % ByteMod]
HexPattern(len, q) == [n \in 1..len |-> ((n - 1) * (2 * q + 3) + 5 * q + 1) % HexBad]
\* whole blocks, and whole blocks with a partial block after them
BufferLens == {b * BlockSize + r : b \in 0..MaxBlocks, r \in {0, 1, BlockSize - 1}}
Buffers == {BufferPattern(len, p) : len \in BufferLens, p \in 0..MaxPattern}
\* hex strings of n bytes, right or wrong in length, odd, or with a bad character
HexStrings(n) ==
    {HexPattern(2 * n, q) : q \in 0..MaxKeys}
    \cup {HexPattern(2 * m, 0) : m \in {0, n - 1, n + 1}}
    \cup {HexPattern(2 * n - 1, 0), [HexPattern(2 * n, 0) EXCEPT ![2] = HexBad]}
WellFormed(keyHex, ivHex) ==
    /\ decode(keyHex).kind = "Ok" /\ Len(decode(keyHex).bytes) = KeySize
    /\ decode(ivHex).kind = "Ok" /\ Len(decode(ivHex).bytes) = BlockSize

InitCipher ==
    /\ variant = "fuz"
    /\ url = NoUrl
    /\ save_format = "Raw"
    /\ num_connections = 1
    /\ num_threads = 1
    /\ JobStart
    /\ SolverIdle
    /\ key_hex \in HexStrings(KeySize)
    /\ iv_hex \in HexStrings(BlockSize)
    /\ plain \in Buffers
    /\ encrypted \in {FALSE, WellFormed(key_hex, iv_hex) /\ Len(plain) % BlockSize = 0}
    /\ cipherIn = IF encrypted
                  THEN CbcEncrypt(plain, decode(key_hex).bytes, decode(iv_hex).bytes)
                  ELSE plain
    /\ cipherOut = NotRun

\* fuz/solver.rs solve_buffer: decrypt_aes_cbc(buffer, &self.key_hex, &self.iv_hex)
Decrypt ==
    /\ cipherOut = NotRun
    /\ cipherOut' = decrypt_aes_cbc(cipherIn, key_hex, iv_hex)
    /\ UNCHANGED <<key_hex, iv_hex, cipherIn, plain, encrypted, pvars, svars>>

NextCipher == Decrypt

SpecCipher == InitCipher /\ [][NextCipher]_vars

\* ------------------------------------------------------------------------
\* The locator alone, over many URLs
\* ------------------------------------------------------------------------
InitLocator ==
    /\ variant = "none"
    /\ url \in Urls
    /\ save_format = "Raw"
    /\ num_connections = 1
    /\ num_threads = 1
    /\ JobStart
    /\ SolverIdle
    /\ CipherIdle

NextLocator ==
    \/ Lookup
    \/ ParseEpisodeId

SpecLocator == InitLocator /\ [][NextLocator]_vars

\* ========================================================================
\* Properties
\* ========================================================================
\* the solved image of a page, as the pipeline of this variant makes it
SolvedImageOf(page) ==
    [src |-> page.index,
     key |-> IF variant = "giga" THEN NoKey ELSE page.index,
     solved |-> TRUE]

Dense(pgs) == \A k \in 1..Len(pgs) : pgs[k].index = k - 1
OutOfOrder(seq) == \E j, k \in 1..Len(seq) : j < k /\ seq[j].tag > seq[k].tag

HasFailure(s) == \E i \in 1..Len(errLog) : errLog[i].stage = s
FetchFailure ==
    \/ HasFailure("FetchingPages")
    \/ \E r \in ready : ~r.ok
SolveFailure == HasFailure("Solving")
WriteFailure == HasFailure("Writing")

\* C1: whatever the order in which fetches and solves complete, the sequence
\* handed to the writer and written by it is strictly ascending by page
\* index: item k is the solved image of the k-th image page, which for
\* indices 0..N-1 is the page with index k; a written file or entry named n
\* holds the image of page n.
C1_WrittenAscending ==
    /\ \A k \in 1..Len(handed) : handed[k] = SolvedImageOf(pages[k])
    /\ \A j, k \in 1..Len(handed) : j < k => handed[j].src < handed[k].src
    /\ Dense(pages) => \A k \in 1..Len(handed) : handed[k].src = k - 1
    /\ \A e \in disk.entries : e.data = SolvedImageOf(pages[e.name + 1])

\* C1 witness: a three-page job ended with Ok although the pages completed
\* out of index order
C1_Witness ==
    /\ result = "Ok"
    /\ Len(handed) = 3
    /\ Cardinality(disk.entries) = 3
    /\ OutOfOrder(images) \/ OutOfOrder(fetched)

\* C2: the writer is invoked at most once, only when every page has been
\* fetched and solved and nothing is in flight, and what it receives is in
\* ascending index order.
C2_WriteOnceAfterAll ==
    /\ writeCalls <= 1
    /\ handed # <<>> => stage \in {"Writing", "Done", "Failed"}
    /\ (writeCalls = 1 \/ stage = "Writing") =>
          /\ next = Len(pages)
          /\ inflight = {} /\ ready = {} /\ solveq = {} /\ solving = {}
          /\ Len(images) = Len(pages)
          /\ \A k \in 1..Len(pages) : \E i \in 1..Len(images) :
                 images[i].data.src = pages[k].index /\ images[i].data.solved
          /\ Len(handed) = Len(pages)
          /\ \A j, k \in 1..Len(handed) : j < k => handed[j].src < handed[k].src

\* C2 witness: the writer was invoked with a sorted three-page collection
C2_Witness ==
    /\ writeCalls = 1
    /\ stage = "Writing"
    /\ Len(handed) = 3

\* C3: once the fetch of a page has failed the job never gets past the fetch
\* stage: the writer is not invoked, nothing is created at the destination,
\* and download does not return Ok but the error.
C3_FetchFailureAborts ==
    FetchFailure =>
        /\ stage \in {"FetchingPages", "Failed"}
        /\ writeCalls = 0
        /\ handed = <<>>
        /\ disk = EmptyDisk
        /\ result # "Ok"
        /\ stage = "Failed" => result = "Err" /\ err.stage = "FetchingPages"

\* C3 witness: the job failed on a fetch although another page was fetched
C3_Witness ==
    /\ stage = "Failed"
    /\ err.stage = "FetchingPages"
    /\ \/ images # <<>>
       \/ \E i \in 1..Len(fetched) : fetched[i].ok

\* C4: once the solve of a page has failed the writer is never invoked and
\* the job ends with the first error it met; no page is solved twice.
C4_SolveFailureAborts ==
    /\ SolveFailure =>
          /\ stage \in {"Solving", "Failed"}
          /\ writeCalls = 0
          /\ disk = EmptyDisk
          /\ result # "Ok"
          /\ stage = "Failed" => result = "Err" /\ err = errLog[1]
    /\ \A p \in 1..Len(pages) :
          Cardinality({i \in 1..Len(images) : images[i].data.src = pages[p].index})
          + Cardinality({i \in 1..Len(errLog) : errLog[i].stage = "Solving"
                                                /\ errLog[i].tag = pages[p].index})
          <= 1

\* C5: download returns Ok only if every image handed to the writer is
\* wholly at the destination under its own name.
C5_OkMeansPersisted ==
    result = "Ok" =>
        \A k \in 1..Len(handed) :
            [name |-> k - 1, data |-> handed[k], complete |-> TRUE] \in disk.entries

\* C6: when the job has ended and a failure happened in the write stage,
\* nothing is left at the destination.
C6_NoPartialOutput ==
    (stage \in Terminal /\ WriteFailure) => disk = EmptyDisk

\* C7: the stage changes only along Locating, FetchingEpisode, FetchingPages,
\* Solving, Sorting, Writing, Done or from a non-terminal stage to Failed;
\* after a failure the only stage change is to Failed; Done and Failed are
\* never left.
StageOrder == <<"Locating", "FetchingEpisode", "FetchingPages", "Solving",
                "Sorting", "Writing", "Done">>
C7_StageStep ==
    /\ stage' # stage =>
          \/ \E n \in 1..(Len(StageOrder) - 1) :
                stage = StageOrder[n] /\ stage' = StageOrder[n + 1]
          \/ stage \notin Terminal /\ stage' = "Failed"
    /\ (stage' # stage /\ errLog' # <<>>) => stage' = "Failed"
    /\ stage \in Terminal => stage' = stage
C7_StageMachine == [][C7_StageStep]_vars

\* C8: on a buffer of at least one full cell per axis, an even number of
\* solve_buffer applications gives back the buffer pixel for pixel.
C8_Involution ==
    (bufW >= 32 /\ bufH >= 32 /\ solveCount % 2 = 0) => buf = orig

\* C8 witness: solve_buffer was applied twice to a buffer that one
\* application changes
C8_Witness ==
    /\ solveCount = 2
    /\ bufW >= 32
    /\ bufH >= 32
    /\ solve_buffer(buf, bufW, bufH) # buf

\* the cell (column, row) a pixel lies in; NUM_CELLS or more: border remainder
CellCol(x) == IF CellSize(bufW) = 0 THEN NUM_CELLS ELSE x \div CellSize(bufW)
CellRow(y) == IF CellSize(bufH) = 0 THEN NUM_CELLS ELSE y \div CellSize(bufH)
InBorder(x, y) == x >= NUM_CELLS * CellSize(bufW) \/ y >= NUM_CELLS * CellSize(bufH)
OnDiagonal(x, y) == ~InBorder(x, y) /\ CellCol(x) = CellRow(y)

\* C9: every pixel of the border remainder and of the four diagonal cells
\* has the value it had before solve_buffer.
C9_BorderAndDiagonalKept ==
    solveCount >= 1 =>
        /\ buf # Panic
        /\ \A x \in 0..(bufW - 1), y \in 0..(bufH - 1) :
              (InBorder(x, y) \/ OnDiagonal(x, y)) =>
                  get_pixel(buf, bufW, x, y) = get_pixel(orig, bufW, x, y)

\* C9 witness: solve_buffer changed a buffer that has a border remainder on
\* both axes
C9_Witness ==
    /\ solveCount = 1
    /\ bufW > NUM_CELLS * CellSize(bufW)
    /\ bufH > NUM_CELLS * CellSize(bufH)
    /\ buf # orig

C11_SmallBufferKept ==
    (solveCount >= 1 /\ (bufW < FullCell \/ bufH < FullCell)) =>
        /\ buf # Panic
        /\ buf = orig

\* C11 witness: solve_buffer ran on a buffer that is wide enough for cells
\* but too low for them
C11_Witness ==
    /\ solveCount = 1
    /\ bufW >= FullCell
    /\ bufH < FullCell
    /\ bufH >= DIVISIBLE_WITH

\* block k of a buffer of whole blocks
Block(buffer, k) == SubSeq(buffer, (k - 1) * BlockSize + 1, k * BlockSize)
Aligned(buffer) == Len(buffer) % BlockSize = 0
WrongLength(hex, n) == decode(hex).kind = "Ok" /\ Len(decode(hex).bytes) # n

\* C12: for a ciphertext of whole blocks c_1..c_n and a key and iv of the
\* right lengths, decrypt_aes_cbc returns Ok with as many bytes as it was
\* given, and block k of them is D_key(c_k) XOR c_(k-1), where c_0 is the iv.
C12_CbcDecryption ==
    (cipherOut # NotRun /\ WellFormed(key_hex, iv_hex) /\ Aligned(cipherIn)) =>
        /\ cipherOut.kind = "Ok"
        /\ Len(cipherOut.bytes) = Len(cipherIn)
        /\ \A k \in 1..(Len(cipherIn) \div BlockSize) :
              Block(cipherOut.bytes, k)
              = XorBlock(DecryptBlock(decode(key_hex).bytes, Block(cipherIn, k)),
                         IF k = 1 THEN decode(iv_hex).bytes
                         ELSE Block(cipherIn, k - 1))

\* C12 witness: a ciphertext of two blocks or more was decrypted
C12_Witness ==
    /\ cipherOut.kind = "Ok"
    /\ ~encrypted
    /\ Len(cipherIn) >= 2 * BlockSize
    /\ cipherOut.bytes # cipherIn

\* C13: when the buffer is the CBC encryption of a plaintext of whole blocks
\* under a key and an iv of the right lengths, decrypt_aes_cbc with the same
\* key and iv returns exactly that plaintext.
C13_RoundTrip ==
    (cipherOut # NotRun /\ encrypted) => cipherOut = CipherResult("Ok", plain)

\* C13 witness: the encryption of a plaintext of two blocks or more, which
\* differs from the plaintext, was decrypted
C13_Witness ==
    /\ cipherOut # NotRun
    /\ encrypted
    /\ Len(plain) >= 2 * BlockSize
    /\ cipherIn # plain

\* C14: when the key or the iv decodes to another length than the cipher
\* takes, decrypt_aes_cbc returns an error value: it does not panic and
\* gives no output bytes.
C14_WrongLengthIsError ==
    (cipherOut # NotRun
     /\ (WrongLength(key_hex, KeySize) \/ WrongLength(iv_hex, BlockSize))) =>
        /\ cipherOut.kind \notin {"Ok", "Panic"}
        /\ cipherOut.bytes = <<>>

\* C15: when the buffer is not a whole number of blocks (key and iv being of
\* the right lengths), decrypt_aes_cbc returns an error value: it does not
\* panic and gives no output bytes, truncated or padded.
C15_UnalignedIsError ==
    (cipherOut # NotRun /\ WellFormed(key_hex, iv_hex) /\ ~Aligned(cipherIn)) =>
        /\ cipherOut.kind \notin {"Ok", "Panic"}
        /\ cipherOut.bytes = <<>>

\* C16: in every state of a job the page fetches in flight (futures of
\* buffer_unordered in giga; spawned tasks, running or finished and not yet
\* taken from buffer_unordered, in fuz) are at most num_connections.
C16_FetchBound ==
    Cardinality(inflight) + Cardinality(ready) <= num_connections

\* C16 witness: num_connections fetches are in flight, more than one of
\* them, while a further page waits to be fetched
C16_Witness ==
    /\ Cardinality(inflight) = num_connections
    /\ num_connections > 1
    /\ next < Len(pages)

\* C17: in every state of a job the page solves in progress are at most
\* num_threads, whatever num_connections is.
C17_SolveBound ==
    Cardinality(solving) <= num_threads

\* a fetch in flight can complete / the next page can be taken by the fetch stage
FetchCompletes == GigaFetchDone \/ FuzFetchComplete
FetchStarts == GigaStartFetch \/ FuzStartFetch

\* C18: while the solve of a page is running, a fetch in flight can complete
\* and, when the fetch stage has a page left, room under num_connections and
\* room in the solve stage, the fetch of a further page can start.
C18_SolveNeverStallsFetch ==
    (stage = "FetchingPages" /\ solving # {}) =>
        /\ inflight # {} => ENABLED FetchCompletes
        /\ (/\ next < Len(pages)
            /\ Cardinality(inflight) + Cardinality(ready) < num_connections
            /\ Cardinality(solveq) + Cardinality(solving) < num_threads)
           => ENABLED FetchStarts

\* what of a job shows outside the fetch and solve stages
HandedOver == \E i \in 1..Len(trail) : trail[i] = "Writing"
PageFailed == FetchFailure \/ SolveFailure
PageOrder(pgs) == [k \in 1..Len(pgs) |-> pgs[k].index]
HandedSources == [k \in 1..Len(handed) |-> handed[k].src]

\* C19: in the pipelined (giga) and in the batch (fuz) pipeline alike, and
\* in every interleaving, what the job shows is the same function of the
\* pages and of the outcomes of their fetches and solves: when no fetch and
\* no solve failed, the writer is handed the solved images of all pages in
\* page order; when one failed, the job hands nothing over and fails; and
\* the job fails in these stages only when a fetch or a solve failed.
C19_PipelinedAsBatch ==
    /\ HandedOver =>
          /\ ~PageFailed
          /\ HandedSources = PageOrder(pages)
          /\ \A k \in 1..Len(handed) : handed[k].solved
    /\ PageFailed =>
          /\ ~HandedOver
          /\ result # "Ok"
          /\ stage \in {"FetchingPages", "Solving", "Failed"}
    /\ (stage = "Failed" /\ err.stage \in {"FetchingPages", "Solving"}) => PageFailed

\* C19 witness: the pipelined job handed three pages over although their
\* solves completed out of page order
C19_Witness ==
    /\ variant = "giga"
    /\ HandedOver
    /\ Len(handed) = 3
    /\ OutOfOrder(images)

\* C20: when download has returned, with Ok, an error or a panic, no fetch
\* task or future, no solve and no writer task of the job is left: each has
\* ended and been collected, or was dropped with the stream.
C20_NoTaskOutlivesJob ==
    stage \in Terminal =>
        /\ inflight = {}
        /\ ready = {}
        /\ solving = {}
        /\ variant = "giga" => solveq = {}
        /\ Running = {}

\* C20 witness: the first fetch collected had failed, and the job returned
\* the error only after all three fetch tasks were collected
C20_Witness ==
    /\ variant = "fuz"
    /\ stage = "Failed"
    /\ Len(fetched) = 3
    /\ ~fetched[1].ok

\* the positions (from 0) of the image pages in the episode, ascending
ImagePositions(e) ==
    SelectSeq([i \in 1..Len(e) |-> i - 1], LAMBDA i : e[i + 1] = "image")
Ascending(pgs) == \A j, k \in 1..Len(pgs) : j < k => pgs[j].index < pgs[k].index
PagesKnown == \E i \in 1..Len(trail) : trail[i] = "FetchingPages"

\* C21 as claimed: in both pipelines the image pages handed to the fetch
\* stage carry exactly the indices 0..N-1, ascending, whatever pages that
\* are no images the episode has.
C21_DenseIndices ==
    PagesKnown => Dense(pages)

\* C21 as amended: the image pages handed to the fetch stage are all image
\* pages of the episode, in episode order, with strictly ascending indices;
\* in giga the indices are exactly 0..N-1, in fuz the index of a page is its
\* position among all pages of the episode.
C21_AscendingIndices ==
    PagesKnown =>
        /\ Len(pages) = Len(ImagePositions(episode))
        /\ \A k \in 1..Len(pages) : is_image(pages[k])
        /\ Ascending(pages)
        /\ variant = "giga" => Dense(pages)
        /\ variant = "fuz" => PageOrder(pages) = ImagePositions(episode)

\* C21 witness: an episode with a page that is no image before and between
\* its two image pages went through the fuz pipeline to the fetch stage
C21_Witness ==
    /\ variant = "fuz"
    /\ stage = "FetchingPages"
    /\ episode = <<"other", "image", "image">> \/ episode = <<"image", "other", "image">>
    /\ Len(pages) = 2
    /\ ~Dense(pages)

\* the number of buffers the key and iv of the page with this index are, or
\* were, applied to
KeyUses(index) ==
    Cardinality({s \in solveq \cup solving : s.page.index = index})
    + Cardinality({i \in 1..Len(images) : images[i].data.key = index})
    + Cardinality({i \in 1..Len(errLog) : errLog[i].stage = "Solving"
                                          /\ errLog[i].tag = index})

\* C22: in the fuz pipeline every buffer is paired with, and decrypted
\* under, the key and iv of the page it was fetched for, whatever the order
\* the fetches completed in; the key and iv of a page are applied to one
\* buffer at most, and to exactly one when the solve stage has ended well.
C22_KeyOfOwnPage ==
    variant = "fuz" =>
        /\ \A s \in solveq \cup solving : s.bytes.src = s.page.index
        /\ \A i \in 1..Len(images) : images[i].data.key = images[i].data.src
        /\ \A k \in 1..Len(handed) : handed[k].key = handed[k].src
        /\ \A k \in 1..Len(pages) : KeyUses(pages[k].index) <= 1
        /\ stage \in {"Sorting", "Writing", "Done"} =>
              \A k \in 1..Len(pages) : KeyUses(pages[k].index) = 1

\* C22 witness: three buffers whose fetches completed out of page order
\* were all decrypted
C22_Witness ==
    /\ variant = "fuz"
    /\ stage = "Sorting"
    /\ Len(images) = 3
    /\ OutOfOrder(fetched)

\* C23: when the job has failed on the fetch of a page, the error the
\* caller gets names the index of that page and the fetch stage.
C23_FetchErrorNamesPage ==
    (stage = "Failed" /\ err.stage = "FetchingPages") =>
        /\ Reported(err).index = err.tag
        /\ Reported(err).stage = "FetchingPages"

\* ------------------------------------------------------------------------
\* The locator
\* ------------------------------------------------------------------------
\* what the job's URL is, said without the matcher: the registries' hosts,
\* and the places <<b, e>> of a path where a literal is followed by the
\* digits path[b..e] and then by one of the allowed endings
GigaHosts == {e[1] : e \in GIGA_HOST_TO_WEBSITE}
FuzHosts == {e[1] : e \in FUZ_HOST_TO_WEBSITE}
KnownHost == url.host \in GigaHosts \cup FuzHosts
IdSplit(path, lit, endings) ==
    {sp \in (1..Len(path)) \X (1..Len(path)) :
        /\ sp[1] <= sp[2]
        /\ sp[1] > Len(lit)
        /\ SubSeq(path, sp[1] - Len(lit), sp[1] - 1) = lit
        /\ \A i \in sp[1]..sp[2] : path[i] \in Digit
        /\ SubSeq(path, sp[2] + 1, Len(path)) \in endings}
UrlIds ==
    IF url.host \in GigaHosts THEN IdSplit(url.path, EpisodeLit, {<<>>, JsonLit})
    ELSE IdSplit(url.path, ViewerLit, {<<>>})
OnlyLocated ==
    /\ \A i \in 1..Len(trail) : trail[i] \in {"Locating", "Failed"}
    /\ episode = <<>>
    /\ next = 0
    /\ inflight = {}
    /\ fetched = <<>>
    /\ images = <<>>
    /\ writeCalls = 0
    /\ disk = EmptyDisk

\* C24: a URL whose host is in neither registry is rejected with the
\* "Website not supported" error: no pipeline is built (no variant, no
\* website), no episode request and no page fetch is made, nothing is written.
C24_UnknownHostRejected ==
    (url.host # NoHost /\ ~KnownHost) =>
        /\ variant = "none"
        /\ website = "None"
        /\ episode_id = <<>>
        /\ OnlyLocated
        /\ stage = "Locating" => ENABLED Lookup
        /\ stage = "Failed" =>
              /\ result = "Err"
              /\ err.context = UnsupportedContext
              /\ Reported(err).context = UnsupportedContext

C24_Witness ==
    /\ url.host = "www.comic-fuz.com"
    /\ stage = "Failed"
    /\ err.context = UnsupportedContext

\* C25: for a known host whose path has no episode id where the site's
\* pattern wants it, the job fails in the Locating stage with the "Failed to
\* parse episode id" error: no episode request, no page fetch, nothing written.
C25_NoIdFailsInLocating ==
    (KnownHost /\ UrlIds = {}) =>
        /\ OnlyLocated
        /\ episode_id = <<>>
        /\ stage = "Failed" =>
              /\ result = "Err"
              /\ err.stage = "Locating"
              /\ err.context = ParseContext
              /\ Reported(err).context = ParseContext

C25_Witness ==
    /\ url.host = "shonenjumpplus.com"
    /\ url.path = ViewerLit \o <<"7">>
    /\ variant = "giga"
    /\ stage = "Failed"
    /\ err.context = ParseContext

\* C26: the locator resolves a URL to (site, id): the site is the one the
\* registry has for the host, and when the path ends in /episode/<digits> or
\* /episode/<digits>.json (giga) or /manga/viewer/<digits> (fuz) the id is
\* exactly <digits>; the two URLs of the documentation resolve as it says.
FuzExample == [host |-> "comic-fuz.com", path |-> ViewerLit \o <<"4", "4", "9", "9", "4">>]
GigaExample == [host |-> "shonenjumpplus.com", path |-> EpisodeLit \o Long \o JsonLit]
Located == stage = "FetchingEpisode"
C26_LocatorResolves ==
    /\ (KnownHost /\ UrlIds # {} /\ stage # "Locating") =>
          /\ Located
          /\ <<url.host, website>> \in GIGA_HOST_TO_WEBSITE \cup FUZ_HOST_TO_WEBSITE
          /\ \A sp \in UrlIds : episode_id = SubSeq(url.path, sp[1], sp[2])
    /\ Located => KnownHost /\ UrlIds # {}
    /\ (url = FuzExample /\ stage # "Locating") =>
          Located /\ website = "ComicFuz" /\ episode_id = <<"4", "4", "9", "9", "4">>
    /\ (url = GigaExample /\ stage # "Locating") =>
          Located /\ website = "ShonenJumpPlus" /\ episode_id = Long

C26_Witness ==
    /\ url.host = "comic-days.com"
    /\ url.path = EpisodeLit \o <<"1">> \o EpisodeLit \o <<"7">> \o JsonLit
    /\ Located
    /\ episode_id = <<"7">>

\* ------------------------------------------------------------------------
\* The writers
\* ------------------------------------------------------------------------
EntryNames == {e.name : e \in disk.entries}
WriterReturned == writeCalls = 1 /\ wpc = "returned" /\ result = "Ok"

\* C27: when the raw or the archive writer has returned from an input of N
\* images, the names it produced are exactly 0..N-1, one file or entry per
\* name, and the one named i holds the whole i-th image of the input.
C27_NumberedByPosition ==
    (save_format \in {"Raw", "Zip"} /\ WriterReturned) =>
        /\ EntryNames = {k - 1 : k \in 1..Len(handed)}
        /\ Cardinality(disk.entries) = Len(handed)
        /\ \A e \in disk.entries : e.data = handed[e.name + 1] /\ e.complete

\* C28: the archive is behind one lock: at most one writer task is inside it,
\* the entry the archive has open is the one of the task that holds the lock,
\* and so every entry holds the bytes of its own image and of no other.
C28_ArchiveSerialized ==
    /\ Cardinality(Locked) <= 1
    /\ \A k \in Locked : zipOpen = k - 1
    /\ save_format = "Zip" =>
          /\ \A e \in disk.entries : e.data = handed[e.name + 1]
          /\ \A e, f \in disk.entries : e.name = f.name => e = f

\* C28 witness: the task of the second image is inside the archive while the
\* task of the first image, spawned before it, waits for the lock
C28_Witness ==
    /\ save_format = "Zip"
    /\ Len(wtask) >= 2
    /\ wtask[1] = "running"
    /\ wtask[2] = "locked"
    /\ zipOpen = 1

\* C29: the document has one page per input image, in input order, and the
\* media box of page k is (0, 0, width, height) of image k; the file written
\* holds these pages.
PdfBuilt == save_format = "Pdf" /\ (wpc = "save" \/ (wpc = "returned" /\ result = "Ok"))
C29_OnePagePerImage ==
    /\ PdfBuilt =>
          /\ Len(pdf) = Len(handed)
          /\ \A k \in 1..Len(pdf) :
                /\ pdf[k].image = handed[k]
                /\ pdf[k].media_box = <<0, 0, dimensions(handed[k])[1], dimensions(handed[k])[2]>>
    /\ (save_format = "Pdf" /\ result = "Ok") =>
          disk.entries = {[name |-> k - 1, data |-> handed[k], complete |-> TRUE] :
                             k \in 1..Len(handed)}

\* C29 witness: a three-page document was written although the encode of the
\* last image ended first
C29_Witness ==
    /\ save_format = "Pdf"
    /\ result = "Ok"
    /\ Len(pdf) = 3
    /\ encoded[1] = 3

\* ------------------------------------------------------------------------
\* Where the order is restored
\* ------------------------------------------------------------------------
WriteEntered == \E i \in 1..Len(trail) : trail[i] = "Writing"
SortThenWrite ==
    \A i \in 1..Len(trail) : trail[i] = "Writing" => i > 1 /\ trail[i - 1] = "Sorting"

\* C30: within one job the results are sorted exactly once, immediately
\* before the write stage, and in no other stage.
C30_SortedExactlyOnce ==
    /\ Len(sortLog) <= 1
    /\ \A i \in 1..Len(sortLog) : sortLog[i] = "Sorting"
    /\ WriteEntered => sortLog = <<"Sorting">>
    /\ SortThenWrite

\* C30 as it holds: the last sort is immediately before the write stage and
\* what the writer gets is ascending; giga sorts only there, whatever order
\* the solved images arrived in; fuz sorts the fetched buffers once more at
\* the end of its fetch stage, before its solve stage pairs buffers and pages
\* by position.
C30_SortedBeforeWrite ==
    /\ SortThenWrite
    /\ WriteEntered =>
          /\ sortLog # <<>>
          /\ sortLog[Len(sortLog)] = "Sorting"
          /\ \A j, k \in 1..Len(handed) : j < k => handed[j].src < handed[k].src
    /\ variant = "none" => sortLog = <<>>
    /\ variant = "giga" => sortLog \in {<<>>, <<"Sorting">>}
    /\ variant = "fuz" =>
          /\ sortLog \in {<<>>, <<"FetchingPages">>, <<"FetchingPages", "Sorting">>}
          /\ (\E i \in 1..Len(trail) : trail[i] = "Solving") => sortLog # <<>>

\* C30 witness: a giga job reached the write stage after one sort of three
\* images that had been solved out of page order
C30_Witness ==
    /\ variant = "giga"
    /\ stage = "Writing"
    /\ sortLog = <<"Sorting">>
    /\ Len(handed) = 3
    /\ OutOfOrder(images)

\* ------------------------------------------------------------------------
\* The sort key
\* ------------------------------------------------------------------------
PageIndices == {pages[k].index : k \in 1..Len(pages)}
Tagged ==
    {[tag |-> u.tag, src |-> u.page.index] : u \in inflight}
    \cup {[tag |-> r.tag, src |-> r.data.src] : r \in ready}
    \cup {[tag |-> fetched[i].tag, src |-> fetched[i].data.src] : i \in 1..Len(fetched)}
    \cup (IF variant = "giga"
          THEN {[tag |-> s.tag, src |-> s.bytes.src] : s \in solveq \cup solving}
          ELSE {})
    \cup {[tag |-> images[i].tag, src |-> images[i].data.src] : i \in 1..Len(images)}

ImageCount(e) == Cardinality({i \in 1..Len(e) : e[i] = "image"})
ImageIndices(e) ==
    IF variant = "giga" THEN 0..(ImageCount(e) - 1)
    ELSE {i - 1 : i \in {j \in 1..Len(e) : e[j] = "image"}}
HandedFor(index) == {k \in 1..Len(handed) : handed[k].src = index}

\* C32: when the job has handed its images to the writer, and when it ends
\* with Ok, the collection holds exactly one image for each image page of
\* the episode, solved, and nothing else.
C32_OnePerImagePage ==
    (HandedOver \/ result = "Ok") =>
        /\ Len(handed) = ImageCount(episode)
        /\ \A x \in ImageIndices(episode) : Cardinality(HandedFor(x)) = 1
        /\ \A k \in 1..Len(handed) : handed[k].src \in ImageIndices(episode) /\ handed[k].solved

\* C32 witness: a job with two connections and two solve slots ended with Ok
\* for an episode of three pages of which two are images, the later image
\* having been fetched first
C32_Witness ==
    /\ result = "Ok"
    /\ num_connections = 2
    /\ num_threads = 2
    /\ Len(episode) = 3
    /\ Len(handed) = 2
    /\ OutOfOrder(images) \/ OutOfOrder(fetched)

\* ------------------------------------------------------------------------
\* Termination
\* ------------------------------------------------------------------------
\* The executor keeps polling the job and runs every spawned task, the rayon
\* pool runs every job given to it, and every request completes with a
\* response or an error: some step that can be taken is eventually taken.
SpecLive == Init /\ [][Next]_vars /\ WF_vars(Next)

SolveBufferFull == variant = "giga" /\ Cardinality(solveq) + Cardinality(solving) >= num_threads
FetchesPending == inflight # {}

\* C33: every job ends in Done or Failed; until then it can always take a
\* step, also while the solve buffer is full and fetches are pending.
C33_Terminates ==
    /\ [](stage \notin Terminal => ENABLED Next)
    /\ <>(stage \in Terminal)

\* C33 witness: the solve buffer of a giga job is full while a fetch is
\* still in flight and pages are left to take
C33_Witness ==
    /\ SolveBufferFull
    /\ FetchesPending
    /\ stage = "FetchingPages"
    /\ next < Len(pages)

\* ------------------------------------------------------------------------
\* The tile swap stays inside the image
\* ------------------------------------------------------------------------
\* the pixels swap_regions touches for the cell whose top left is tl
Region(tl, cell_width, cell_height) ==
    {<<tl[1] + x, tl[2] + y>> : x \in 0..(cell_width - 1), y \in 0..(cell_height - 1)}

\* C34: NUM_CELLS cells fit into the image on both axes, every pixel of the
\* source and of the target region of every swap is inside the image, the
\* two regions of a swap share no pixel, and solve_buffer never fails on a
\* pixel access; the cells fit for every dimension from 0 to MaxDim.
C34_SwapInBounds ==
    LET cw == CellSize(bufW)
        ch == CellSize(bufH)
    IN  /\ buf # Panic
        /\ NUM_CELLS * cw <= bufW
        /\ NUM_CELLS * ch <= bufH
        /\ \A k \in 1..Len(LoopPairs) :
              LET src == Region(Source(LoopPairs[k][1], LoopPairs[k][2], cw, ch), cw, ch)
                  tgt == Region(Target(LoopPairs[k][1], LoopPairs[k][2], cw, ch), cw, ch)
              IN  /\ \A c \in src \cup tgt : InBounds(bufW, bufH, c[1], c[2])
                  /\ src \cap tgt = {}
        /\ \A d \in 0..MaxDim : NUM_CELLS * CellSize(d) <= d

\* C34 witness: a buffer whose sides are no multiples of the cell grid was
\* solved and its tiles moved
C34_Witness ==
    /\ solveCount = 1
    /\ bufW = FullCell + MaxExtra
    /\ bufH = FullCell + 1
    /\ buf # Panic
    /\ buf # orig

\* ------------------------------------------------------------------------
\* The positional pairing of the fuz solve stage
\* ------------------------------------------------------------------------
SolveReached == \E i \in 1..Len(trail) : trail[i] = "Solving"
ZipPanic == \E i \in 1..Len(errLog) : errLog[i] = PanicAt("Solving", NoKey)

\* C35: in the fuz download the solve stage is reached only when every fetch
\* gave its buffer, so the buffers are as many as the pages they are zipped
\* with and the pairing never aborts; every pair holds an image page, so the
\* filter drops nothing and the non-image branch is never taken.
C35_ZipNeverAborts ==
    variant = "fuz" =>
        /\ ~ZipPanic
        /\ (stage = "FetchingPages" /\ next = Len(pages) /\ inflight = {} /\ ready = {}
            /\ FirstErr(fetched) = NoErr) => ~ZipEqAborts(OkValues(fetched), pages)
        /\ SolveReached =>
              /\ Len(fetched) = Len(pages)
              /\ \A i \in 1..Len(fetched) : fetched[i].ok
              /\ \A k \in 1..Len(pages) :
                    Cardinality({s \in solveq \cup solving : s.pos = k})
                    + Cardinality({i \in 1..Len(images) : images[i].pos = k})
                    + Cardinality({i \in 1..Len(errLog) : errLog[i].stage = "Solving"
                                                          /\ errLog[i].tag = pages[k].index}) = 1
        /\ \A s \in solveq \cup solving : is_image(s.page)

\* C35 witness: three buffers fetched out of page order were zipped with the
\* three pages and are waiting for their solve
C35_Witness ==
    /\ variant = "fuz"
    /\ stage = "Solving"
    /\ Cardinality(solveq) = 3
    /\ Len(pages) = 3
    /\ OutOfOrder(fetched)

\* ------------------------------------------------------------------------
\* The host registries
\* ------------------------------------------------------------------------
\* C36: every preset site is found again under its own host, no two presets
\* share a host, no host is in both registries, and the site chosen for the
\* job's URL is the same whichever registry main asks first.
C36_RegistryConsistent ==
    /\ \A w \in GigaPresets : GigaLookup(WebsiteHost(w)) = w
    /\ \A w \in FuzPresets : FuzLookup(WebsiteHost(w)) = w
    /\ \A v, w \in GigaPresets \cup FuzPresets : WebsiteHost(v) = WebsiteHost(w) => v = w
    /\ \A e, f \in GIGA_HOST_TO_WEBSITE \cup FUZ_HOST_TO_WEBSITE : e[1] = f[1] => e = f
    /\ GigaHosts \cap FuzHosts = {}
    /\ {e[2] : e \in GIGA_HOST_TO_WEBSITE} = GigaPresets
    /\ {e[2] : e \in FUZ_HOST_TO_WEBSITE} = FuzPresets
    /\ \A h \in Hosts :
          /\ VariantOf(h) = VariantOf_fuz_first(h)
          /\ WebsiteOf(h) = WebsiteOf_fuz_first(h)
    /\ variant # "none" =>
          /\ variant = VariantOf_fuz_first(url.host)
          /\ website = WebsiteOf_fuz_first(url.host)
          /\ WebsiteHost(website) = url.host

\* C36 witness: the one preset whose host has a www label was looked up
C36_Witness ==
    /\ url.host = "www.sunday-webry.com"
    /\ variant = "giga"
    /\ website = "SundayWebry"

\* ------------------------------------------------------------------------
\* The object ids of the document
\* ------------------------------------------------------------------------
PageObjectIds(page) == <<page.image_id, page.page_id, page.content_id>>
RECURSIVE AllPageIds(_)
AllPageIds(pgs) ==
    IF pgs = <<>> THEN <<>> ELSE PageObjectIds(Head(pgs)) \o AllPageIds(Tail(pgs))
ObjectIds == <<doc.catalog_id, doc.page_tree_id>> \o AllPageIds(pdf)

====
